---- MODULE Spec2Model ----
(***************************************************************************)
(* A model of the filesops library: the recursive search engine            *)
(* (FileSearch) and its filters.                                           *)
(*                                                                         *)
(* Strings are sequences of one-character strings, so that toLowerCase,    *)
(* String.replace, path.parse and RegExp are computed character by         *)
(* character the way the JavaScript source computes them.                  *)
(***************************************************************************)
EXTENDS Integers, Sequences, FiniteSets, TLC

VARIABLES
    fs,           \* the directory tree on disk: node id -> node
    opts,         \* the SearchOptions of the running search call
    stack,        \* the searchRecursive activations, innermost last
    files,        \* the files accumulator of the call
    directories,  \* the directories accumulator of the call
    result,       \* what the call returned: a SearchResult or a rejection
    pc,           \* position of the search call
    probed,       \* every stat call made so far: <<path, succeeded>>
    visited,      \* every FileInfo that reached the isDirectory/isFile branch
    listed,       \* every path handed to readdir so far
    call,         \* arguments of a pure function under test
    ret           \* its return value

vars == <<fs, opts, stack, files, directories, result, pc, probed, visited,
          listed, call, ret>>

walkVars == <<fs, opts, stack, files, directories, result, pc, probed,
              visited, listed>>

(***************************************************************************)
(* Strings                                                                 *)
(***************************************************************************)

LowerLetters ==
    <<"a", "b", "c", "d", "e", "f", "g", "h", "i", "j", "k", "l", "m",
      "n", "o", "p", "q", "r", "s", "t", "u", "v", "w", "x", "y", "z">>

UpperLetters ==
    <<"A", "B", "C", "D", "E", "F", "G", "H", "I", "J", "K", "L", "M",
      "N", "O", "P", "Q", "R", "S", "T", "U", "V", "W", "X", "Y", "Z">>

UpperCase == {UpperLetters[i] : i \in DOMAIN UpperLetters}
LowerCase == {LowerLetters[i] : i \in DOMAIN LowerLetters}

LowerOf ==
    [c \in UpperCase |->
        LowerLetters[CHOOSE i \in DOMAIN UpperLetters : UpperLetters[i] = c]]

UpperOf ==
    [c \in LowerCase |->
        UpperLetters[CHOOSE i \in DOMAIN LowerLetters : LowerLetters[i] = c]]

\* String.prototype.toUpperCase
toUpperCase(s) ==
    [i \in 1..Len(s) |-> IF s[i] \in LowerCase THEN UpperOf[s[i]] ELSE s[i]]

\* String.prototype.toLowerCase
toLowerCase(s) ==
    [i \in 1..Len(s) |-> IF s[i] \in UpperCase THEN LowerOf[s[i]] ELSE s[i]]

\* String.prototype.startsWith for a one-character prefix
startsWith(s, c) == Len(s) > 0 /\ s[1] = c

RECURSIVE replaceAll(_, _, _)
\* String.prototype.replace(/c/g, rep) for a single character c
replaceAll(s, c, rep) ==
    IF s = <<>> THEN <<>>
    ELSE (IF Head(s) = c THEN rep ELSE <<Head(s)>>) \o replaceAll(Tail(s), c, rep)

RECURSIVE LastIndexOf(_, _, _)
LastIndexOf(s, c, i) ==
    IF i = 0 THEN 0
    ELSE IF s[i] = c THEN i ELSE LastIndexOf(s, c, i - 1)

\* path.parse(p).ext for a base name: the part from the last dot on, empty
\* when there is no dot, when the only dot leads the name, or for "..".
pathExt(base) ==
    LET d == LastIndexOf(base, ".", Len(base))
    IN  IF d = 0 \/ d = 1 \/ base = <<".", ".">> THEN <<>>
        ELSE SubSeq(base, d, Len(base))

(***************************************************************************)
(* RegExp: the fragment of the JavaScript pattern language that the        *)
(* sources built by matchesPattern can contain over the characters         *)
(* modelled here: ^ and $ assertions, literal characters, the escape \c,   *)
(* the wildcard . and the quantifiers * and +.                             *)
(***************************************************************************)

Quantifiers == {"*", "+"}

Tok(kind, ch) == [kind |-> kind, ch |-> ch, q |-> "1"]

Quantifiable(toks) ==
    /\ toks # <<>>
    /\ toks[Len(toks)].kind \in {"lit", "any"}
    /\ toks[Len(toks)].q = "1"

RECURSIVE regexParse(_, _, _)
\* new RegExp(src): the parsed pattern, or ok = FALSE for a SyntaxError
regexParse(src, i, toks) ==
    IF i > Len(src) THEN [ok |-> TRUE, toks |-> toks]
    ELSE LET c == src[i] IN
         CASE c = "^" -> regexParse(src, i + 1, Append(toks, Tok("bol", c)))
           [] c = "$" -> regexParse(src, i + 1, Append(toks, Tok("eol", c)))
           [] c = "." -> regexParse(src, i + 1, Append(toks, Tok("any", c)))
           [] c = "\\" ->
                IF i = Len(src) THEN [ok |-> FALSE, toks |-> <<>>]
                ELSE regexParse(src, i + 2, Append(toks, Tok("lit", src[i + 1])))
           [] c \in Quantifiers ->
                IF Quantifiable(toks)
                THEN regexParse(src, i + 1,
                         [toks EXCEPT ![Len(toks)].q = c])
                ELSE [ok |-> FALSE, toks |-> <<>>]
           [] OTHER -> regexParse(src, i + 1, Append(toks, Tok("lit", c)))

AtomMatches(t, c) == t.kind = "any" \/ t.ch = c

RECURSIVE regexMatchHere(_, _, _)
\* the backtracking matcher: do toks match a prefix of s (s starts at the
\* beginning of the input iff atStart)
regexMatchHere(toks, s, atStart) ==
    IF toks = <<>> THEN TRUE
    ELSE LET t == Head(toks) IN
         CASE t.kind = "bol" -> atStart /\ regexMatchHere(Tail(toks), s, atStart)
           [] t.kind = "eol" -> s = <<>> /\ regexMatchHere(Tail(toks), s, atStart)
           [] t.q = "1" ->
                /\ s # <<>>
                /\ AtomMatches(t, Head(s))
                /\ regexMatchHere(Tail(toks), Tail(s), FALSE)
           [] t.q = "*" ->
                \/ /\ s # <<>>
                   /\ AtomMatches(t, Head(s))
                   /\ regexMatchHere(toks, Tail(s), FALSE)
                \/ regexMatchHere(Tail(toks), s, atStart)
           [] t.q = "+" ->
                /\ s # <<>>
                /\ AtomMatches(t, Head(s))
                /\ regexMatchHere(<<[t EXCEPT !.q = "*"]>> \o Tail(toks),
                                  Tail(s), FALSE)

\* RegExp.prototype.test: a match starting at any offset of s
regexTest(toks, s) ==
    \E k \in 0..Len(s) :
        regexMatchHere(toks, SubSeq(s, k + 1, Len(s)), k = 0)

RECURSIVE regexMatchLen(_, _, _)
\* the backtracking matcher with its priorities (a quantifier takes as much
\* as it can first): the length of the match of toks at the head of s, or -1
regexMatchLen(toks, s, atStart) ==
    IF toks = <<>> THEN 0
    ELSE LET t == Head(toks)
             here == s # <<>> /\ AtomMatches(t, Head(s))
             one(r) == IF r < 0 THEN -1 ELSE r + 1
         IN
         CASE t.kind = "bol" ->
                IF atStart THEN regexMatchLen(Tail(toks), s, atStart) ELSE -1
           [] t.kind = "eol" ->
                IF s = <<>> THEN regexMatchLen(Tail(toks), s, atStart) ELSE -1
           [] t.q = "1" ->
                IF here THEN one(regexMatchLen(Tail(toks), Tail(s), FALSE))
                ELSE -1
           [] t.q = "*" ->
                LET more == IF here THEN regexMatchLen(toks, Tail(s), FALSE)
                            ELSE -1
                IN  IF more >= 0 THEN more + 1
                    ELSE regexMatchLen(Tail(toks), s, atStart)
           [] t.q = "+" ->
                IF here
                THEN one(regexMatchLen(<<[t EXCEPT !.q = "*"]>> \o Tail(toks),
                                       Tail(s), FALSE))
                ELSE -1

\* RegExp.prototype.test on a RegExp object re = [source, global] whose
\* lastIndex property is lastIndex: the result and the lastIndex it leaves.
\* Without the g flag lastIndex is neither read nor written; with it the
\* match is looked for from lastIndex on, and lastIndex becomes the end of
\* the match, or 0 when there is none.
regExpTest(re, lastIndex, s) ==
    LET toks == regexParse(re.source, 1, <<>>).toks
        from(k) == SubSeq(s, k + 1, Len(s))
        starts == {k \in lastIndex..Len(s) :
                       regexMatchLen(toks, from(k), k = 0) >= 0}
        first == CHOOSE k \in starts : \A j \in starts : k <= j
    IN  IF ~re.global
        THEN [val |-> regexTest(toks, s), lastIndex |-> lastIndex]
        ELSE IF starts = {}
        THEN [val |-> FALSE, lastIndex |-> 0]
        ELSE [val |-> TRUE,
              lastIndex |-> first + regexMatchLen(toks, from(first), first = 0)]

(***************************************************************************)
(* FileSearch.matchesPattern and FileSearch.matchesOptions                 *)
(***************************************************************************)

\* the source text handed to new RegExp for a string pattern
regexPattern(targetPattern) ==
    replaceAll(
        replaceAll(
            replaceAll(targetPattern, ".", <<"\\", ".">>),
            "*", <<".", "*">>),
        "?", <<".">>)

\* matchesPattern(filename, pattern, caseSensitive) for a string pattern:
\* threw = TRUE when new RegExp throws a SyntaxError, else val is the result
matchesPattern(filename, pattern, caseSensitive) ==
    LET targetName == IF caseSensitive THEN filename ELSE toLowerCase(filename)
        targetPattern == IF caseSensitive THEN pattern ELSE toLowerCase(pattern)
        re == regexParse(<<"^">> \o regexPattern(targetPattern) \o <<"$">>,
                         1, <<>>)
    IN  IF re.ok
        THEN [threw |-> FALSE, val |-> regexTest(re.toks, targetName)]
        ELSE [threw |-> TRUE, val |-> FALSE]

\* SearchOptions: has is the set of the properties that are present; an
\* absent property reads as undefined
Has(o, f) == f \in o.has

\* JavaScript truthiness of an optional number or boolean property
TruthyNum(o, f, v) == Has(o, f) /\ v # 0
TruthyBool(o, f, v) == Has(o, f) /\ v

\* options.pattern || '*'
patternOrStar(o) ==
    IF Has(o, "pattern") /\ o.pattern # <<>> THEN o.pattern ELSE <<"*">>

\* options.caseSensitive || false
caseSensitiveOrFalse(o) == TruthyBool(o, "caseSensitive", o.caseSensitive)

\* the extension filter of matchesOptions: TRUE when the file is rejected
extensionRejects(fileInfo, o) ==
    /\ Has(o, "extensions")
    /\ Len(o.extensions) > 0
    /\ LET ext == toLowerCase(fileInfo.extension)
           extensions ==
               [i \in 1..Len(o.extensions) |->
                   LET e == o.extensions[i]
                   IN  IF startsWith(toLowerCase(e), ".") THEN e
                       ELSE <<".">> \o e]
       IN  ~ \E i \in 1..Len(extensions) : extensions[i] = ext

\* the size filters of matchesOptions: TRUE when the file is rejected
maxSizeRejects(fileInfo, o) ==
    TruthyNum(o, "maxSize", o.maxSize) /\ fileInfo.size > o.maxSize

minSizeRejects(fileInfo, o) ==
    TruthyNum(o, "minSize", o.minSize) /\ fileInfo.size < o.minSize

\* the date filters of matchesOptions (a Date object is always truthy)
modifiedSinceRejects(fileInfo, o) ==
    Has(o, "modifiedSince") /\ fileInfo.modifiedAt < o.modifiedSince

modifiedBeforeRejects(fileInfo, o) ==
    Has(o, "modifiedBefore") /\ fileInfo.modifiedAt > o.modifiedBefore

matchesOptions(fileInfo, o) ==
    IF extensionRejects(fileInfo, o) THEN FALSE
    ELSE IF maxSizeRejects(fileInfo, o) THEN FALSE
    ELSE IF minSizeRejects(fileInfo, o) THEN FALSE
    ELSE IF modifiedSinceRejects(fileInfo, o) THEN FALSE
    ELSE IF modifiedBeforeRejects(fileInfo, o) THEN FALSE
    ELSE TRUE

(***************************************************************************)
(* The file system: fs.stat and fs.readdir                                 *)
(***************************************************************************)

NoNode == 0
Root == 1

Node(name, kind, children, target, size, mtime, readable) ==
    [name |-> name, kind |-> kind, children |-> children, target |-> target,
     size |-> size, mtime |-> mtime, readable |-> readable]

File(name, size, mtime) == Node(name, "file", <<>>, NoNode, size, mtime, TRUE)
Dir(name, children, readable) == Node(name, "dir", children, NoNode, 4, 0, readable)
Symlink(name, target) == Node(name, "symlink", <<>>, target, 0, 0, TRUE)

\* an entry that was removed after the tree was built
Gone(node) == [node EXCEPT !.kind = "gone"]

\* the number of symbolic links the resolution of one path may follow
\* before it fails with ELOOP
MaxLinkHops == 2

RECURSIVE resolveLink(_, _, _)
\* the node a directory entry stands for once symbolic links are followed,
\* NoNode for a removed entry, a dangling link or too many links
resolveLink(f, n, hops) ==
    IF n = NoNode THEN NoNode
    ELSE IF f[n].kind = "gone" THEN NoNode
    ELSE IF f[n].kind # "symlink" THEN n
    ELSE IF hops = 0 THEN NoNode
    ELSE resolveLink(f, f[n].target, hops - 1)

RECURSIVE linkHops(_, _, _)
\* the links still allowed once the entry n is resolved with hops allowed,
\* -1 when it does not resolve
linkHops(f, n, hops) ==
    IF n = NoNode THEN -1
    ELSE IF f[n].kind = "gone" THEN -1
    ELSE IF f[n].kind # "symlink" THEN hops
    ELSE IF hops = 0 THEN -1
    ELSE linkHops(f, f[n].target, hops - 1)

Leaf(path) == path[Len(path)]

RECURSIVE resolveFrom(_, _, _, _)
\* path resolution from the i-th component on: every component must exist,
\* and the links followed along the whole path count against one allowance
resolveFrom(f, path, i, hops) ==
    IF hops < 0 THEN NoNode
    ELSE IF i = Len(path) THEN resolveLink(f, path[i], hops)
    ELSE resolveFrom(f, path, i + 1, linkHops(f, path[i], hops))

\* the node a path names, NoNode when the path does not resolve
resolvePath(f, path) == resolveFrom(f, path, 1, MaxLinkHops)

\* fs.stat(path): follows symbolic links, so the Stats it yields describe the
\* target; ok = FALSE when the call rejects
stat(f, path) ==
    LET n == resolvePath(f, path)
    IN  IF n = NoNode
        THEN [ok |-> FALSE, size |-> 0, isDirectory |-> FALSE, isFile |-> FALSE,
              isSymbolicLink |-> FALSE, mtime |-> 0]
        ELSE [ok |-> TRUE, size |-> f[n].size,
              isDirectory |-> f[n].kind = "dir",
              isFile |-> f[n].kind = "file",
              isSymbolicLink |-> f[n].kind = "symlink",
              mtime |-> f[n].mtime]

\* fs.readdir(path): the entries of the directory in the order the system
\* lists them; ok = FALSE when the call rejects
readdir(f, path) ==
    LET n == resolvePath(f, path)
    IN  IF n # NoNode /\ f[n].kind = "dir" /\ f[n].readable
        THEN [ok |-> TRUE, items |-> f[n].children]
        ELSE [ok |-> FALSE, items |-> <<>>]

\* FileSearch.getFileInfo
getFileInfo(f, filePath) ==
    LET stats == stat(f, filePath)
        base == f[Leaf(filePath)].name
    IN  [ok |-> stats.ok,
         info |-> [path |-> filePath,
                   name |-> base,
                   extension |-> pathExt(base),
                   size |-> stats.size,
                   isDirectory |-> stats.isDirectory,
                   isFile |-> stats.isFile,
                   modifiedAt |-> stats.mtime]]

(***************************************************************************)
(* The directory trees and the option values the search is run on          *)
(***************************************************************************)

\* root/
\*   a.txt   5 bytes, modified at 2        .h      hidden file
\*   sub/    b.txt (10, at 3)  A.JS (0, at 2)  deep/ c.js (7, at 1)
\*   .g/     hidden directory holding h.txt
\*   lnk  -> sub                           dead -> (nothing)
\*   priv/   a directory that cannot be listed, holding p.js
Tree(rootReadable) ==
    <<Dir(<<"r">>, <<2, 3, 4, 5, 6, 7, 8>>, rootReadable),
      File(<<"a", ".", "t", "x", "t">>, 5, 2),
      File(<<".", "h">>, 1, 1),
      Dir(<<"s", "u", "b">>, <<9, 10, 11>>, TRUE),
      Dir(<<".", "g">>, <<12>>, TRUE),
      Symlink(<<"l", "n", "k">>, 4),
      Symlink(<<"d", "e", "a", "d">>, NoNode),
      Dir(<<"p", "r", "i", "v">>, <<13>>, FALSE),
      File(<<"b", ".", "t", "x", "t">>, 10, 3),
      File(<<"A", ".", "J", "S">>, 0, 2),
      Dir(<<"d", "e", "e", "p">>, <<14>>, TRUE),
      File(<<"h", ".", "t", "x", "t">>, 2, 2),
      File(<<"p", ".", "j", "s">>, 3, 2),
      File(<<"c", ".", "j", "s">>, 7, 1)>>

FileSystems == {Tree(TRUE), Tree(FALSE)}

\* the largest maxDepth the search is run with
MaxDepthOpt == 2

Patterns ==
    {<<"*", ".", "j", "s">>, <<"+">>}

ExtensionLists ==
    {<<<<".", "J", "S">>>>, <<<<"t", "x", "t">>, <<".", "j", "s">>>>}

\* an optional property: absent (has = FALSE, v a filler that is never read)
\* or present with one of the values of S
Choices(S, filler) ==
    {[has |-> FALSE, v |-> filler]} \cup {[has |-> TRUE, v |-> x] : x \in S}

OptionNames ==
    {"pattern", "extensions", "maxDepth", "includeHidden", "caseSensitive",
     "followSymlinks", "maxSize", "minSize", "modifiedSince", "modifiedBefore"}

MkOptions(c) ==
    [has |-> {f \in OptionNames : c[f].has},
     pattern |-> c["pattern"].v, extensions |-> c["extensions"].v,
     maxDepth |-> c["maxDepth"].v, includeHidden |-> c["includeHidden"].v,
     caseSensitive |-> c["caseSensitive"].v,
     followSymlinks |-> c["followSymlinks"].v,
     maxSize |-> c["maxSize"].v, minSize |-> c["minSize"].v,
     modifiedSince |-> c["modifiedSince"].v,
     modifiedBefore |-> c["modifiedBefore"].v]

\* every SearchOptions value the search is run with
SearchOptionsSet ==
    {MkOptions(c) : c \in
        [pattern : Choices(Patterns, <<>>),
         extensions : Choices(ExtensionLists, <<>>),
         maxDepth : Choices(0..MaxDepthOpt, 0),
         includeHidden : Choices(BOOLEAN, FALSE),
         caseSensitive : Choices({}, FALSE),
         followSymlinks : Choices(BOOLEAN, FALSE),
         maxSize : Choices({0, 5}, 0),
         minSize : Choices({5}, 0),
         modifiedSince : Choices({2}, 0),
         modifiedBefore : Choices({2}, 0)]}

(***************************************************************************)
(* FileSearch.search and FileSearch.searchRecursive                        *)
(***************************************************************************)

\* the depth check with >= written for >
depthLimitExceeded_offByOne(o, currentDepth) ==
    Has(o, "maxDepth") /\ currentDepth >= o.maxDepth

\* the depth check at the entry of searchRecursive
depthLimitExceeded(o, currentDepth) ==
    Has(o, "maxDepth") /\ currentDepth > o.maxDepth

\* the hidden-entry check with the option read the wrong way round
skipsHidden_inverted(o, item) ==
    TruthyBool(o, "includeHidden", o.includeHidden) /\ startsWith(item, ".")

\* the hidden-entry check at the head of the loop
skipsHidden(o, item) ==
    ~TruthyBool(o, "includeHidden", o.includeHidden) /\ startsWith(item, ".")

Frame(path, depth) ==
    [path |-> path, depth |-> depth, phase |-> "enter", items |-> <<>>, i |-> 0]

Top == stack[Len(stack)]
Pop == SubSeq(stack, 1, Len(stack) - 1)

\* the reduce with the running sum dropped: sum = file.size
SumSizes_lastOnly(fl) == IF fl = <<>> THEN 0 ELSE fl[Len(fl)].size

RECURSIVE SumSizes(_)
\* files.reduce((sum, file) => sum + file.size, 0)
SumSizes(fl) == IF fl = <<>> THEN 0 ELSE Head(fl).size + SumSizes(Tail(fl))

\* search, up to its first await: fresh accumulators, then the call of
\* searchRecursive(searchPath, options, files, directories, 0)
Search(o) ==
    /\ pc' = "walking"
    /\ opts' = o
    /\ files' = <<>>
    /\ directories' = <<>>
    /\ stack' = <<Frame(<<Root>>, 0)>>
    /\ UNCHANGED <<fs, result, probed, visited, listed, call, ret>>

\* searchRecursive from its entry to the start of the loop: the depth check
\* and the readdir, whose rejection is caught by the outer try
Enter ==
    /\ pc = "walking"
    /\ stack # <<>>
    /\ Top.phase = "enter"
    /\ IF depthLimitExceeded(opts, Top.depth)
       THEN /\ stack' = Pop
            /\ listed' = listed
       ELSE LET items == readdir(fs, Top.path)
            IN  /\ listed' = Append(listed, Top.path)
                /\ IF items.ok
                   THEN stack' = [stack EXCEPT ![Len(stack)] =
                            [@ EXCEPT !.phase = "loop", !.items = items.items,
                                      !.i = 1]]
                   ELSE stack' = Pop
    /\ UNCHANGED <<fs, opts, files, directories, result, pc, probed, visited,
                   call, ret>>

\* what one iteration of the loop over items does with the entry item:
\*   probes    the stat calls it makes, in order
\*   seen      whether the entry reaches the isDirectory / isFile branch
\*   toDirs, toFiles   whether its FileInfo is pushed
\*   recurse   whether searchRecursive is called on it
\* f is the tree getFileInfo sees, f2 the tree the second stat sees, and m
\* what matchesPattern yields for the entry's name
visitCore(f, f2, o, currentPath, item, m) ==
    LET itemPath == Append(currentPath, item)
        got == getFileInfo(f, itemPath)
        fileInfo == got.info
        second == stat(f2, itemPath)
        skip == [probes |-> <<>>, seen |-> FALSE, info |-> fileInfo,
                 toDirs |-> FALSE, toFiles |-> FALSE, recurse |-> FALSE]
    IN  IF skipsHidden(o, f[item].name)
        THEN skip
        ELSE IF ~got.ok
        THEN [skip EXCEPT !.probes = <<<<itemPath, FALSE>>>>]
        ELSE IF ~TruthyBool(o, "followSymlinks", o.followSymlinks) /\ ~second.ok
        THEN [skip EXCEPT !.probes = <<<<itemPath, TRUE>>, <<itemPath, FALSE>>>>]
        ELSE LET probes ==
                     IF TruthyBool(o, "followSymlinks", o.followSymlinks)
                     THEN <<<<itemPath, TRUE>>>>
                     ELSE <<<<itemPath, TRUE>>, <<itemPath, TRUE>>>>
             IN  IF ~TruthyBool(o, "followSymlinks", o.followSymlinks)
                    /\ second.isSymbolicLink
                 THEN [skip EXCEPT !.probes = probes]
                 ELSE IF fileInfo.isDirectory
                 THEN [probes |-> probes, seen |-> TRUE, info |-> fileInfo,
                       toDirs |-> ~m.threw /\ m.val, toFiles |-> FALSE,
                       recurse |-> ~m.threw]
                 ELSE IF fileInfo.isFile
                 THEN [probes |-> probes, seen |-> TRUE, info |-> fileInfo,
                       toDirs |-> FALSE,
                       toFiles |-> ~m.threw /\ m.val
                                   /\ matchesOptions(fileInfo, o),
                       recurse |-> FALSE]
                 ELSE [skip EXCEPT !.probes = probes, !.seen = TRUE]

\* the loop body on a tree that does not change during the iteration
visitItem(f, o, currentPath, item) ==
    visitCore(f, f, o, currentPath, item,
              matchesPattern(f[item].name, patternOrStar(o),
                             caseSensitiveOrFalse(o)))

\* a loop that is given up at the first entry whose stat rejects
loopAfter_abort(stk, v) ==
    IF \E i \in 1..Len(v.probes) : ~v.probes[i][2]
    THEN SubSeq(stk, 1, Len(stk) - 1)
    ELSE [stk EXCEPT ![Len(stk)].i = @ + 1]

\* a walk that puts a directory aside and descends into it only after the
\* loops in progress are over
loopAfter_deferred(stk, v) ==
    LET next == [stk EXCEPT ![Len(stk)].i = @ + 1]
    IN  IF v.recurse
        THEN <<Frame(v.info.path, stk[Len(stk)].depth + 1)>> \o next
        ELSE next

\* the activations after one iteration: the loop moves on to the next item,
\* below a new activation when the entry is descended into
loopAfter(stk, v) ==
    LET next == [stk EXCEPT ![Len(stk)].i = @ + 1]
    IN  IF v.recurse
        THEN Append(next, Frame(v.info.path, stk[Len(stk)].depth + 1))
        ELSE next

\* one iteration of the loop of searchRecursive; an exception thrown in the
\* inner try is caught there and the loop continues
\* what an iteration that went as v leaves behind
Record(v) ==
    /\ probed' = probed \o v.probes
    /\ visited' = IF v.seen THEN Append(visited, v.info) ELSE visited
    /\ directories' = IF v.toDirs THEN Append(directories, v.info)
                      ELSE directories
    /\ files' = IF v.toFiles THEN Append(files, v.info) ELSE files
    /\ stack' = loopAfter(stack, v)

Iterate ==
    /\ pc = "walking"
    /\ stack # <<>>
    /\ Top.phase = "loop"
    /\ Top.i <= Len(Top.items)
    /\ Record(visitItem(fs, opts, Top.path, Top.items[Top.i]))
    /\ UNCHANGED <<fs, opts, result, pc, listed, call, ret>>

\* searchRecursive returns once the loop is over
Return ==
    /\ pc = "walking"
    /\ stack # <<>>
    /\ Top.phase = "loop"
    /\ Top.i > Len(Top.items)
    /\ stack' = Pop
    /\ UNCHANGED <<fs, opts, files, directories, result, pc, probed, visited,
                   listed, call, ret>>

\* search after the await: the totals and the returned SearchResult
Finish ==
    /\ pc = "walking"
    /\ stack = <<>>
    /\ pc' = "done"
    /\ result' = [rejected |-> FALSE,
                  files |-> files,
                  directories |-> directories,
                  totalFiles |-> Len(files),
                  totalDirectories |-> Len(directories),
                  totalSize |-> SumSizes(files)]
    /\ UNCHANGED <<fs, opts, stack, files, directories, probed, visited,
                   listed, call, ret>>

NoOptions == MkOptions([f \in OptionNames |-> [has |-> FALSE, v |-> <<>>]])
NoResult == [rejected |-> FALSE, files |-> <<>>, directories |-> <<>>,
             totalFiles |-> 0, totalDirectories |-> 0, totalSize |-> 0]

Init ==
    /\ fs \in FileSystems
    /\ opts = NoOptions
    /\ stack = <<>>
    /\ files = <<>>
    /\ directories = <<>>
    /\ result = NoResult
    /\ pc = "idle"
    /\ probed = <<>>
    /\ visited = <<>>
    /\ listed = <<>>
    /\ call = <<>>
    /\ ret = <<>>

Next ==
    \/ pc = "idle" /\ \E o \in SearchOptionsSet : Search(o)
    \/ Enter
    \/ Iterate
    \/ Return
    \/ Finish

Spec == Init /\ [][Next]_vars

(***************************************************************************)
(* Vocabulary of the properties                                            *)
(***************************************************************************)

Range(q) == {q[i] : i \in 1..Len(q)}

Done == pc = "done"

\* the level of an entry: 0 for the children of the root
Level(path) == Len(path) - 2

\* an entry is hidden, or lies below a hidden directory of the walked tree
HiddenOnPath(path) ==
    \E i \in 2..Len(path) : startsWith(fs[path[i]].name, ".")

\* an entry is a symbolic link, or is reached through one
LinkOnPath(path) ==
    \E i \in 2..Len(path) : fs[path[i]].kind = "symlink"

FollowLinks == TruthyBool(opts, "followSymlinks", opts.followSymlinks)
IncludeHidden == TruthyBool(opts, "includeHidden", opts.includeHidden)

Recorded == Range(files) \cup Range(directories)
ProbedPaths == {pr[1] : pr \in Range(probed)}
ListedOk == {p \in Range(listed) : readdir(fs, p).ok}

RECURSIVE GlobMatch(_, _)
\* the glob language: * is any sequence of characters, ? is exactly one
\* character, every other character is itself
GlobMatch(p, s) ==
    IF p = <<>> THEN s = <<>>
    ELSE IF Head(p) = "*"
         THEN GlobMatch(Tail(p), s) \/ (s # <<>> /\ GlobMatch(p, Tail(s)))
    ELSE IF Head(p) = "?"
         THEN s # <<>> /\ GlobMatch(Tail(p), Tail(s))
    ELSE s # <<>> /\ Head(s) = Head(p) /\ GlobMatch(Tail(p), Tail(s))

GlobMatches(name, pattern, caseSensitive) ==
    IF caseSensitive THEN GlobMatch(pattern, name)
    ELSE GlobMatch(toLowerCase(pattern), toLowerCase(name))

RECURSIVE SizeTotal(_, _)
\* the sum of the sizes of the first n entries of q
SizeTotal(q, n) == IF n = 0 THEN 0 ELSE SizeTotal(q, n - 1) + q[n].size

(***************************************************************************)
(* The search walk: C1, C2, C5 to C10                                      *)
(***************************************************************************)

\* C1: when readdir on the root fails, the search call fails and the failure
\* reaches the caller; it does not return an empty SearchResult.
C1_RootFailureReachesCaller ==
    (Done /\ ~readdir(fs, <<Root>>).ok) => result.rejected

\* C2: with followSymlinks false or absent, a child that is a symbolic link
\* is never recorded in files or directories and is never descended into.
C2_SymlinksSkipped ==
    ~FollowLinks =>
        /\ \A e \in Recorded : ~LinkOnPath(e.path)
        /\ \A p \in Range(listed) : ~LinkOnPath(p)

C6_HiddenPolicy ==
    /\ ~IncludeHidden =>
          /\ \A e \in Recorded \cup Range(visited) : ~HiddenOnPath(e.path)
          /\ \A p \in ProbedPaths \cup Range(listed) : ~HiddenOnPath(p)
    /\ (IncludeHidden /\ Done) =>
          \A p \in ListedOk :
              \A c \in Range(readdir(fs, p).items) :
                  Append(p, c) \in ProbedPaths

\* a search with includeHidden true has recorded the hidden file .h and the
\* file h.txt below the hidden directory .g
C6_Witness ==
    /\ Done
    /\ IncludeHidden
    /\ {<<Root, 3>>, <<Root, 5, 12>>} \subseteq {f.path : f \in Range(files)}

\* C7: every SearchResult returned satisfies totalFiles = length of files,
\* totalDirectories = length of directories and totalSize = the sum of the
\* sizes of the entries of files, directories contributing nothing.
C7_Totals ==
    Done =>
        /\ result.files = files
        /\ result.directories = directories
        /\ result.totalFiles = Len(result.files)
        /\ result.totalDirectories = Len(result.directories)
        /\ result.totalSize = SizeTotal(result.files, Len(result.files))

\* a returned result with two files or more, a directory, and a total size
\* that is not zero
C7_Witness ==
    /\ Done
    /\ result.totalFiles >= 2
    /\ result.totalDirectories >= 1
    /\ result.totalSize > 0

\* C8: size bounds are inclusive and apply for every configured value,
\* maxSize = 0 included: every recorded file has size <= maxSize and
\* size >= minSize.
C8_SizeBounds ==
    Done =>
        /\ Has(opts, "maxSize") => \A f \in Range(files) : f.size <= opts.maxSize
        /\ Has(opts, "minSize") => \A f \in Range(files) : f.size >= opts.minSize

\* C9: modifiedSince is an exclusive bound (a file modified exactly at
\* modifiedSince is not recorded) and modifiedBefore an inclusive one.
C9_DateBounds ==
    Done =>
        /\ Has(opts, "modifiedSince") =>
              \A f \in Range(files) : f.modifiedAt > opts.modifiedSince
        /\ Has(opts, "modifiedBefore") =>
              \A f \in Range(files) : f.modifiedAt <= opts.modifiedBefore

\* the filters as C10 words them, each holding vacuously when not configured
PatternPasses(f) ==
    Has(opts, "pattern") =>
        GlobMatches(f.name, opts.pattern, caseSensitiveOrFalse(opts))

ExtensionPasses(f) ==
    (Has(opts, "extensions") /\ opts.extensions # <<>>) =>
        \E i \in 1..Len(opts.extensions) :
            LET e == toLowerCase(opts.extensions[i])
            IN  toLowerCase(f.extension) =
                    (IF startsWith(e, ".") THEN e ELSE <<".">> \o e)

SizePasses(f) ==
    /\ Has(opts, "maxSize") => f.size <= opts.maxSize
    /\ Has(opts, "minSize") => f.size >= opts.minSize

DatePasses(f) ==
    /\ Has(opts, "modifiedSince") => f.modifiedAt >= opts.modifiedSince
    /\ Has(opts, "modifiedBefore") => f.modifiedAt <= opts.modifiedBefore

\* C10: a visited file is recorded in files iff the name matches the pattern
\* AND the extension filter passes AND the size bounds pass AND the date
\* bounds pass.
C10_Conjunction ==
    Done =>
        \A f \in Range(visited) :
            f.isFile =>
                (f \in Range(files) <=>
                    /\ PatternPasses(f)
                    /\ ExtensionPasses(f)
                    /\ SizePasses(f)
                    /\ DatePasses(f))

\* C11: for a visited directory the pattern decides only whether it is
\* recorded: the walk descends into it whether or not its name matches
\* (subject to maxDepth), and no other filter excludes it from directories.
C11_DescendsRegardless ==
    Done =>
        \A d \in Range(visited) :
            d.isDirectory =>
                /\ \/ Has(opts, "maxDepth") /\ Level(d.path) >= opts.maxDepth
                   \/ d.path \in Range(listed)
                /\ d \in Range(directories) <=> PatternPasses(d)

(***************************************************************************)
(* The walk while another process removes entries: C12                     *)
(***************************************************************************)

\* how many entries the other process removes during one walk
MaxRemoved == 1

Removed == {n \in DOMAIN fs : fs[n].kind = "gone"}

\* another process removes an entry (a directory goes with all it holds)
Remove ==
    /\ pc = "walking"
    /\ Cardinality(Removed) < MaxRemoved
    /\ \E n \in (DOMAIN fs) \ (Removed \cup {Root}) :
           fs' = [fs EXCEPT ![n] = Gone(@)]
    /\ UNCHANGED <<opts, stack, files, directories, result, pc, probed,
                   visited, listed, call, ret>>

\* an iteration during which the entry is removed after getFileInfo has
\* read it and before the second stat
IterateRaced ==
    /\ pc = "walking"
    /\ stack # <<>>
    /\ Top.phase = "loop"
    /\ Top.i <= Len(Top.items)
    /\ Cardinality(Removed) < MaxRemoved
    /\ LET item == Top.items[Top.i]
       IN  /\ item \notin Removed
           /\ fs' = [fs EXCEPT ![item] = Gone(@)]
           /\ Record(visitCore(fs, fs', opts, Top.path, item,
                               matchesPattern(fs[item].name,
                                              patternOrStar(opts),
                                              caseSensitiveOrFalse(opts))))
    /\ UNCHANGED <<opts, result, pc, listed, call, ret>>

\* the options of the walks that are raced
RaceOptionsSet ==
    {MkOptions(c) : c \in
        [pattern : Choices({<<"*", ".", "j", "s">>}, <<>>),
         extensions : Choices({}, <<>>),
         maxDepth : Choices({}, 0),
         includeHidden : Choices({TRUE}, FALSE),
         caseSensitive : Choices({}, FALSE),
         followSymlinks : Choices({TRUE}, FALSE),
         maxSize : Choices({}, 0),
         minSize : Choices({}, 0),
         modifiedSince : Choices({}, 0),
         modifiedBefore : Choices({}, 0)]}

InitRace ==
    /\ fs = Tree(TRUE)
    /\ opts = NoOptions
    /\ stack = <<>>
    /\ files = <<>>
    /\ directories = <<>>
    /\ result = NoResult
    /\ pc = "idle"
    /\ probed = <<>>
    /\ visited = <<>>
    /\ listed = <<>>
    /\ call = <<>>
    /\ ret = <<>>

WalkStep ==
    \/ Enter
    \/ Iterate
    \/ IterateRaced
    \/ Return
    \/ Finish

NextRace ==
    \/ pc = "idle" /\ \E o \in RaceOptionsSet : Search(o)
    \/ WalkStep
    \/ Remove

SpecRace == InitRace /\ [][NextRace]_vars

\* the children that were enumerated in p and are not skipped as hidden
Enumerated(p) ==
    {Append(p, c) : c \in {c \in Range(readdir(Tree(TRUE), p).items) :
                               ~skipsHidden(opts, fs[c].name)}}

\* the loop over the children of p has started
LoopStarted(p) ==
    \/ readdir(fs, p).ok
    \/ \E q \in ProbedPaths : Len(q) = Len(p) + 1 /\ SubSeq(q, 1, Len(p)) = p

\* C12: a failure below the root neither fails search nor stops the walk:
\* an entry whose stat failed is omitted, nothing below a directory that
\* cannot be enumerated is collected, and every other entry is processed as
\* if nothing had failed; the call returns a result.
C12_FailuresAreLocal ==
    Done =>
        /\ ~result.rejected
        /\ \A e \in Recorded : <<e.path, FALSE>> \notin Range(probed)
        /\ \A p \in Range(listed) :
            /\ ~readdir(Tree(TRUE), p).ok =>
                   \A q \in ProbedPaths :
                       Len(q) > Len(p) => SubSeq(q, 1, Len(p)) # p
            /\ LoopStarted(p) =>
                \A q \in Enumerated(p) :
                    /\ q \in ProbedPaths
                    /\ stat(fs, q).ok =>
                        LET info == getFileInfo(fs, q).info
                        IN  /\ info.isDirectory => q \in Range(listed)
                            /\ info.isFile =>
                                   (info \in Range(files) <=>
                                       PatternPasses(info))

\* a.txt was removed before its stat, which failed, and b.txt below its
\* sibling sub was still collected
C12_Witness ==
    /\ Done
    /\ 2 \in Removed
    /\ <<<<Root, 2>>, FALSE>> \in Range(probed)
    /\ \E f \in Range(result.files) : f.path = <<Root, 4, 9>>

(***************************************************************************)
(* The walk on a tree with a link to an ancestor: C13                      *)
(***************************************************************************)

\* r/
\*   a.txt
\*   sub/
\*     b.txt
\*     up -> r
LoopTree ==
    <<Dir(<<"r">>, <<2, 3>>, TRUE),
      File(<<"a", ".", "t", "x", "t">>, 5, 2),
      Dir(<<"s", "u", "b">>, <<4, 5>>, TRUE),
      File(<<"b", ".", "t", "x", "t">>, 10, 3),
      Symlink(<<"u", "p">>, Root)>>

LoopOptionsSet ==
    {MkOptions(c) : c \in
        [pattern : Choices({}, <<>>),
         extensions : Choices({}, <<>>),
         maxDepth : Choices(0..MaxDepthOpt, 0),
         includeHidden : Choices({}, FALSE),
         caseSensitive : Choices({}, FALSE),
         followSymlinks : Choices(BOOLEAN, FALSE),
         maxSize : Choices({}, 0),
         minSize : Choices({}, 0),
         modifiedSince : Choices({}, 0),
         modifiedBefore : Choices({}, 0)]}

InitLoop ==
    /\ fs = LoopTree
    /\ opts = NoOptions
    /\ stack = <<>>
    /\ files = <<>>
    /\ directories = <<>>
    /\ result = NoResult
    /\ pc = "idle"
    /\ probed = <<>>
    /\ visited = <<>>
    /\ listed = <<>>
    /\ call = <<>>
    /\ ret = <<>>

NextLoop ==
    \/ pc = "idle" /\ \E o \in LoopOptionsSet : Search(o)
    \/ Enter
    \/ Iterate
    \/ Return
    \/ Finish

SpecLoop == InitLoop /\ [][NextLoop]_vars

\* C13: with followSymlinks false or absent no directory is enumerated more
\* than once, also on a tree with a link to an ancestor directory.
C13_EnumeratedOnce ==
    ~FollowLinks =>
        \A i, j \in 1..Len(listed) :
            i # j => resolvePath(fs, listed[i]) # resolvePath(fs, listed[j])

(***************************************************************************)
(* Two searches in flight at once: C14                                     *)
(***************************************************************************)

\* In this specification pc, stack, files, directories and result hold one
\* value per call, opts is the options object both calls are given, and
\* call is the mutable part of the RegExp object that is its pattern.
Calls == {1, 2}

\* r/
\*   a.js
\*   d/
\*     b.js
\*   c.txt
ConcTree ==
    <<Dir(<<"r">>, <<2, 3, 5>>, TRUE),
      File(<<"a", ".", "j", "s">>, 5, 2),
      Dir(<<"d">>, <<4>>, TRUE),
      File(<<"b", ".", "j", "s">>, 10, 3),
      File(<<"c", ".", "t", "x", "t">>, 1, 1)>>

\* the RegExp objects given as pattern: /js/, /js/g, /^./, /^./g
RegExps ==
    [source : {<<"j", "s">>, <<"^", ".">>}, global : BOOLEAN]

\* matchesPattern(filename, pattern, caseSensitive) for a RegExp pattern
matchesRegExp(filename, re, lastIndex) ==
    LET t == regExpTest(re, lastIndex, filename)
    IN  [threw |-> FALSE, val |-> t.val, lastIndex |-> t.lastIndex]

\* what a call has when search starts it
Started ==
    [stack |-> <<Frame(<<Root>>, 0)>>, files |-> <<>>, directories |-> <<>>]

\* one call from one suspension point to the next: st is its activations and
\* accumulators, li the lastIndex of the pattern when it resumes
searchStep(f, o, st, li) ==
    LET top == st.stack[Len(st.stack)]
        pop == SubSeq(st.stack, 1, Len(st.stack) - 1)
        items == readdir(f, top.path)
        item == top.items[top.i]
        m == matchesRegExp(f[item].name, o.pattern, li)
        v == visitCore(f, f, o, top.path, item, m)
    IN  IF top.phase = "enter"
        THEN [st |-> [st EXCEPT !.stack =
                         IF depthLimitExceeded(o, top.depth) \/ ~items.ok
                         THEN pop
                         ELSE [st.stack EXCEPT ![Len(st.stack)] =
                                  [@ EXCEPT !.phase = "loop",
                                            !.items = items.items, !.i = 1]]],
              li |-> li]
        ELSE IF top.i > Len(top.items)
        THEN [st |-> [st EXCEPT !.stack = pop], li |-> li]
        ELSE [st |-> [stack |-> loopAfter(st.stack, v),
                      files |-> IF v.toFiles THEN Append(st.files, v.info)
                                ELSE st.files,
                      directories |->
                          IF v.toDirs THEN Append(st.directories, v.info)
                          ELSE st.directories],
              li |-> IF v.seen THEN m.lastIndex ELSE li]

\* the SearchResult built from the accumulators
resultOf(st) ==
    [rejected |-> FALSE,
     files |-> st.files,
     directories |-> st.directories,
     totalFiles |-> Len(st.files),
     totalDirectories |-> Len(st.directories),
     totalSize |-> SumSizes(st.files)]

SearchOf(k) ==
    /\ pc[k] = "idle"
    /\ pc' = [pc EXCEPT ![k] = "walking"]
    /\ stack' = [stack EXCEPT ![k] = Started.stack]
    /\ files' = [files EXCEPT ![k] = Started.files]
    /\ directories' = [directories EXCEPT ![k] = Started.directories]
    /\ UNCHANGED <<fs, opts, result, probed, visited, listed, call, ret>>

StepOf(k) ==
    /\ pc[k] = "walking"
    /\ stack[k] # <<>>
    /\ LET r == searchStep(fs, opts,
                           [stack |-> stack[k], files |-> files[k],
                            directories |-> directories[k]],
                           call.lastIndex)
       IN  /\ stack' = [stack EXCEPT ![k] = r.st.stack]
           /\ files' = [files EXCEPT ![k] = r.st.files]
           /\ directories' = [directories EXCEPT ![k] = r.st.directories]
           /\ call' = [lastIndex |-> r.li]
    /\ UNCHANGED <<fs, opts, result, pc, probed, visited, listed, ret>>

FinishOf(k) ==
    /\ pc[k] = "walking"
    /\ stack[k] = <<>>
    /\ pc' = [pc EXCEPT ![k] = "done"]
    /\ result' = [result EXCEPT ![k] =
                     resultOf([files |-> files[k],
                               directories |-> directories[k]])]
    /\ UNCHANGED <<fs, opts, stack, files, directories, probed, visited,
                   listed, call, ret>>

InitConc ==
    /\ fs = ConcTree
    /\ \E re \in RegExps :
           opts = [NoOptions EXCEPT !.has = {"pattern"}, !.pattern = re]
    /\ call = [lastIndex |-> 0]
    /\ pc = [k \in Calls |-> "idle"]
    /\ stack = [k \in Calls |-> <<>>]
    /\ files = [k \in Calls |-> <<>>]
    /\ directories = [k \in Calls |-> <<>>]
    /\ result = [k \in Calls |-> NoResult]
    /\ probed = <<>>
    /\ visited = <<>>
    /\ listed = <<>>
    /\ ret = <<>>

NextConc ==
    \E k \in Calls :
        \/ SearchOf(k)
        \/ StepOf(k)
        \/ FinishOf(k)

SpecConc == InitConc /\ [][NextConc]_vars

RECURSIVE RunAlone(_, _, _, _)
\* a call run from st to its end with nothing else in flight
RunAlone(f, o, st, li) ==
    IF st.stack = <<>> THEN st
    ELSE LET r == searchStep(f, o, st, li) IN RunAlone(f, o, r.st, r.li)

\* C14: whatever the interleaving, each call returns the result it returns
\* when it runs alone.
C14_SameAsAlone ==
    \A k \in Calls :
        pc[k] = "done" => result[k] = resultOf(RunAlone(fs, opts, Started, 0))

(***************************************************************************)
(* The filters as functions of their arguments: C3, C4                     *)
(***************************************************************************)

RECURSIVE StringsUpTo(_, _)
\* the strings over the characters A of length at most n
StringsUpTo(A, n) ==
    IF n = 0 THEN {<<>>}
    ELSE LET S == StringsUpTo(A, n - 1)
         IN  S \cup {Append(w, c) : w \in S, c \in A}

\* no search call is running
WalkIdle ==
    /\ fs = Tree(TRUE)
    /\ opts = NoOptions
    /\ stack = <<>>
    /\ files = <<>>
    /\ directories = <<>>
    /\ result = NoResult
    /\ probed = <<>>
    /\ visited = <<>>
    /\ listed = <<>>

Pending == [done |-> FALSE]

\* the longest pattern and the longest file name matchesPattern is run on
MaxPatternLen == 3
MaxNameLen == 2

PatternChars == {"a", "A", ".", "*", "?", "+"}
NameChars == {"a", "A", ".", "+"}

InitPattern ==
    /\ WalkIdle
    /\ pc = "matchesPattern"
    /\ call \in [filename : StringsUpTo(NameChars, MaxNameLen) \ {<<>>},
                 pattern : StringsUpTo(PatternChars, MaxPatternLen),
                 caseSensitive : BOOLEAN]
    /\ ret = Pending

\* one call of matchesPattern(filename, pattern, caseSensitive)
CallMatchesPattern ==
    /\ pc = "matchesPattern"
    /\ ~ret.done
    /\ LET m == matchesPattern(call.filename, call.pattern, call.caseSensitive)
       IN  ret' = [done |-> TRUE, threw |-> m.threw, val |-> m.val]
    /\ UNCHANGED <<walkVars, call>>

SpecPattern == InitPattern /\ [][CallMatchesPattern]_vars

\* C4: for a string pattern matchesPattern matches a name iff the whole name
\* matches the glob in which * is any sequence of characters, ? exactly one
\* character and every other character, regex metacharacters included, is
\* itself, ignoring letter case unless caseSensitive; no pattern makes the
\* match fail to evaluate.
C4_GlobSemantics ==
    (pc = "matchesPattern" /\ ret.done) =>
        /\ ~ret.threw
        /\ ret.val = GlobMatches(call.filename, call.pattern, call.caseSensitive)

\* the longest configured extension and file-name suffix of the extension
\* filter's inputs
MaxExtLen == 3

ExtChars == {".", "j", "J", "s"}

InitExt ==
    /\ WalkIdle
    /\ pc = "matchesOptions"
    /\ call \in [name : {<<"a">> \o w : w \in StringsUpTo(ExtChars, MaxExtLen)},
                 configured : StringsUpTo(ExtChars, MaxExtLen) \ {<<>>}]
    /\ ret = Pending

\* one call of matchesOptions on the FileInfo of a file of that name, with
\* options that configure the one extension
CallMatchesOptions ==
    /\ pc = "matchesOptions"
    /\ ~ret.done
    /\ LET fileInfo == [path |-> <<Root>>, name |-> call.name,
                        extension |-> pathExt(call.name), size |-> 0,
                        isDirectory |-> FALSE, isFile |-> TRUE,
                        modifiedAt |-> 0]
           o == [NoOptions EXCEPT !.has = {"extensions"},
                                  !.extensions = <<call.configured>>]
       IN  ret' = [done |-> TRUE, val |-> matchesOptions(fileInfo, o)]
    /\ UNCHANGED <<walkVars, call>>

SpecExt == InitExt /\ [][CallMatchesOptions]_vars

\* C3: the extension filter is case-insensitive in both directions and
\* normalises the leading dot: a file of extension x passes a configured
\* extension e iff lower(x) equals lower(e) with a leading dot added when
\* missing.
C3_ExtensionFilter ==
    (pc = "matchesOptions" /\ ret.done) =>
        LET x == toLowerCase(pathExt(call.name))
            e == toLowerCase(call.configured)
        IN  ret.val <=> x = (IF startsWith(e, ".") THEN e ELSE <<".">> \o e)

(***************************************************************************)
(* utils.ts: batchFileInfo: C15                                            *)
(***************************************************************************)

\* the longest list of paths batchFileInfo is called with
MaxBatch == 3

Paths == {"a", "b", "c"}

\* utils.getFileInfo(filePath) settled: it rejects when canAccess is false,
\* with an Error whose message names the path
settle(accessible, filePath) ==
    IF filePath \in accessible
    THEN [status |-> "fulfilled",
          value |-> [filePath |-> filePath,
                     info |-> [path |-> filePath, exists |-> TRUE]],
          reason |-> <<>>]
    ELSE [status |-> "rejected",
          value |-> <<>>,
          reason |-> <<"File not found or not accessible: ", filePath>>]

\* the object batchFileInfo(filePaths) resolves to
batchFileInfo(accessible, filePaths) ==
    LET results == [i \in 1..Len(filePaths) |->
                        settle(accessible, filePaths[i])]
        fulfilled(r) == r.status = "fulfilled"
        rejected(r) == r.status = "rejected"
        ok == SelectSeq(results, fulfilled)
        bad == SelectSeq(results, rejected)
    IN  [done |-> TRUE,
         successful |-> [i \in 1..Len(ok) |-> ok[i].value],
         failed |-> [index \in 1..Len(bad) |->
                        [filePath |-> filePaths[index],
                         error |-> bad[index].reason]]]

InitBatch ==
    /\ WalkIdle
    /\ pc = "batchFileInfo"
    /\ call \in [filePaths : StringsUpTo(Paths, MaxBatch),
                 accessible : SUBSET Paths]
    /\ ret = Pending

CallBatchFileInfo ==
    /\ pc = "batchFileInfo"
    /\ ret = Pending
    /\ ret' = batchFileInfo(call.accessible, call.filePaths)
    /\ UNCHANGED <<fs, opts, stack, files, directories, result, pc, probed,
                   visited, listed, call>>

SpecBatch == InitBatch /\ [][CallBatchFileInfo]_vars

\* C15: every input path is accounted for exactly once, in 'successful'
\* when its getFileInfo succeeded and in 'failed' when it failed.
C15_EachPathOnce ==
    (pc = "batchFileInfo" /\ ret.done) =>
        LET succeeded(x) == x \in call.accessible
            rejected(x) == x \notin call.accessible
        IN  /\ [i \in 1..Len(ret.successful) |-> ret.successful[i].filePath]
                   = SelectSeq(call.filePaths, succeeded)
            /\ [i \in 1..Len(ret.failed) |-> ret.failed[i].filePath]
                   = SelectSeq(call.filePaths, rejected)

(***************************************************************************)
(* fileType.ts: FileTypeDetector                                           *)
(***************************************************************************)

\* the tables, as sets of <<key, value>> pairs
\* FileTypeDetector.mimeTypes
mimeTypes ==
    {<<<<".", "t", "x", "t">>, "text/plain">>,
     <<<<".", "m", "d">>, "text/markdown">>,
     <<<<".", "j", "s", "o", "n">>, "application/json">>,
     <<<<".", "x", "m", "l">>, "application/xml">>,
     <<<<".", "h", "t", "m", "l">>, "text/html">>,
     <<<<".", "h", "t", "m">>, "text/html">>,
     <<<<".", "c", "s", "s">>, "text/css">>,
     <<<<".", "j", "s">>, "application/javascript">>,
     <<<<".", "t", "s">>, "application/typescript">>,
     <<<<".", "j", "s", "x">>, "application/javascript">>,
     <<<<".", "t", "s", "x">>, "application/typescript">>,
     <<<<".", "p", "y">>, "text/x-python">>,
     <<<<".", "j", "a", "v", "a">>, "text/x-java-source">>,
     <<<<".", "c", "p", "p">>, "text/x-c++src">>,
     <<<<".", "c">>, "text/x-csrc">>, <<<<".", "h">>, "text/x-chdr">>,
     <<<<".", "p", "h", "p">>, "application/x-httpd-php">>,
     <<<<".", "r", "b">>, "application/x-ruby">>,
     <<<<".", "g", "o">>, "text/x-go">>,
     <<<<".", "r", "s">>, "text/x-rust">>,
     <<<<".", "s", "h">>, "application/x-sh">>,
     <<<<".", "b", "a", "t">>, "application/x-bat">>,
     <<<<".", "p", "s", "1">>, "application/x-powershell">>,
     <<<<".", "j", "p", "g">>, "image/jpeg">>,
     <<<<".", "j", "p", "e", "g">>, "image/jpeg">>,
     <<<<".", "p", "n", "g">>, "image/png">>,
     <<<<".", "g", "i", "f">>, "image/gif">>,
     <<<<".", "b", "m", "p">>, "image/bmp">>,
     <<<<".", "s", "v", "g">>, "image/svg+xml">>,
     <<<<".", "w", "e", "b", "p">>, "image/webp">>,
     <<<<".", "i", "c", "o">>, "image/x-icon">>,
     <<<<".", "t", "i", "f", "f">>, "image/tiff">>,
     <<<<".", "t", "i", "f">>, "image/tiff">>,
     <<<<".", "m", "p", "3">>, "audio/mpeg">>,
     <<<<".", "w", "a", "v">>, "audio/wav">>,
     <<<<".", "f", "l", "a", "c">>, "audio/flac">>,
     <<<<".", "a", "a", "c">>, "audio/aac">>,
     <<<<".", "o", "g", "g">>, "audio/ogg">>,
     <<<<".", "m", "4", "a">>, "audio/mp4">>,
     <<<<".", "m", "p", "4">>, "video/mp4">>,
     <<<<".", "a", "v", "i">>, "video/x-msvideo">>,
     <<<<".", "m", "o", "v">>, "video/quicktime">>,
     <<<<".", "w", "m", "v">>, "video/x-ms-wmv">>,
     <<<<".", "f", "l", "v">>, "video/x-flv">>,
     <<<<".", "w", "e", "b", "m">>, "video/webm">>,
     <<<<".", "m", "k", "v">>, "video/x-matroska">>,
     <<<<".", "z", "i", "p">>, "application/zip">>,
     <<<<".", "r", "a", "r">>, "application/vnd.rar">>,
     <<<<".", "t", "a", "r">>, "application/x-tar">>,
     <<<<".", "g", "z">>, "application/gzip">>,
     <<<<".", "7", "z">>, "application/x-7z-compressed">>,
     <<<<".", "b", "z", "2">>, "application/x-bzip2">>,
     <<<<".", "p", "d", "f">>, "application/pdf">>,
     <<<<".", "d", "o", "c">>, "application/msword">>,
     <<<<".", "d", "o", "c", "x">>, "application/vnd.openxmlformats-officedocument.wordprocessingml.document">>,
     <<<<".", "x", "l", "s">>, "application/vnd.ms-excel">>,
     <<<<".", "x", "l", "s", "x">>, "application/vnd.openxmlformats-officedocument.spreadsheetml.sheet">>,
     <<<<".", "p", "p", "t">>, "application/vnd.ms-powerpoint">>,
     <<<<".", "p", "p", "t", "x">>, "application/vnd.openxmlformats-officedocument.presentationml.presentation">>,
     <<<<".", "e", "x", "e">>, "application/x-msdownload">>,
     <<<<".", "m", "s", "i">>, "application/x-msi">>,
     <<<<".", "d", "e", "b">>, "application/vnd.debian.binary-package">>,
     <<<<".", "r", "p", "m">>, "application/x-rpm">>,
     <<<<".", "d", "m", "g">>, "application/x-apple-diskimage">>,
     <<<<".", "a", "p", "p">>, "application/x-apple-app">>}

\* FileTypeDetector.categories
categories ==
    {<<<<".", "t", "x", "t">>, "Text">>,
     <<<<".", "m", "d">>, "Documentation">>,
     <<<<".", "j", "s", "o", "n">>, "Data">>,
     <<<<".", "x", "m", "l">>, "Data">>,
     <<<<".", "h", "t", "m", "l">>, "Web">>,
     <<<<".", "h", "t", "m">>, "Web">>, <<<<".", "c", "s", "s">>, "Web">>,
     <<<<".", "j", "s">>, "Code">>, <<<<".", "t", "s">>, "Code">>,
     <<<<".", "j", "s", "x">>, "Code">>, <<<<".", "t", "s", "x">>, "Code">>,
     <<<<".", "p", "y">>, "Code">>, <<<<".", "j", "a", "v", "a">>, "Code">>,
     <<<<".", "c", "p", "p">>, "Code">>, <<<<".", "c">>, "Code">>,
     <<<<".", "h">>, "Code">>, <<<<".", "p", "h", "p">>, "Code">>,
     <<<<".", "r", "b">>, "Code">>, <<<<".", "g", "o">>, "Code">>,
     <<<<".", "r", "s">>, "Code">>, <<<<".", "s", "h">>, "Script">>,
     <<<<".", "b", "a", "t">>, "Script">>,
     <<<<".", "p", "s", "1">>, "Script">>,
     <<<<".", "j", "p", "g">>, "Image">>,
     <<<<".", "j", "p", "e", "g">>, "Image">>,
     <<<<".", "p", "n", "g">>, "Image">>,
     <<<<".", "g", "i", "f">>, "Image">>,
     <<<<".", "b", "m", "p">>, "Image">>,
     <<<<".", "s", "v", "g">>, "Image">>,
     <<<<".", "w", "e", "b", "p">>, "Image">>,
     <<<<".", "i", "c", "o">>, "Image">>,
     <<<<".", "t", "i", "f", "f">>, "Image">>,
     <<<<".", "t", "i", "f">>, "Image">>,
     <<<<".", "m", "p", "3">>, "Audio">>,
     <<<<".", "w", "a", "v">>, "Audio">>,
     <<<<".", "f", "l", "a", "c">>, "Audio">>,
     <<<<".", "a", "a", "c">>, "Audio">>,
     <<<<".", "o", "g", "g">>, "Audio">>,
     <<<<".", "m", "4", "a">>, "Audio">>,
     <<<<".", "m", "p", "4">>, "Video">>,
     <<<<".", "a", "v", "i">>, "Video">>,
     <<<<".", "m", "o", "v">>, "Video">>,
     <<<<".", "w", "m", "v">>, "Video">>,
     <<<<".", "f", "l", "v">>, "Video">>,
     <<<<".", "w", "e", "b", "m">>, "Video">>,
     <<<<".", "m", "k", "v">>, "Video">>,
     <<<<".", "z", "i", "p">>, "Archive">>,
     <<<<".", "r", "a", "r">>, "Archive">>,
     <<<<".", "t", "a", "r">>, "Archive">>, <<<<".", "g", "z">>, "Archive">>,
     <<<<".", "7", "z">>, "Archive">>, <<<<".", "b", "z", "2">>, "Archive">>,
     <<<<".", "p", "d", "f">>, "Document">>,
     <<<<".", "d", "o", "c">>, "Document">>,
     <<<<".", "d", "o", "c", "x">>, "Document">>,
     <<<<".", "x", "l", "s">>, "Document">>,
     <<<<".", "x", "l", "s", "x">>, "Document">>,
     <<<<".", "p", "p", "t">>, "Document">>,
     <<<<".", "p", "p", "t", "x">>, "Document">>,
     <<<<".", "e", "x", "e">>, "Executable">>,
     <<<<".", "m", "s", "i">>, "Executable">>,
     <<<<".", "d", "e", "b">>, "Executable">>,
     <<<<".", "r", "p", "m">>, "Executable">>,
     <<<<".", "d", "m", "g">>, "Executable">>,
     <<<<".", "a", "p", "p">>, "Executable">>}

\* FileTypeDetector.descriptions
descriptions ==
    {<<<<".", "t", "x", "t">>, "Plain text file">>,
     <<<<".", "m", "d">>, "Markdown document">>,
     <<<<".", "j", "s", "o", "n">>, "JSON data file">>,
     <<<<".", "x", "m", "l">>, "XML document">>,
     <<<<".", "h", "t", "m", "l">>, "HTML web page">>,
     <<<<".", "h", "t", "m">>, "HTML web page">>,
     <<<<".", "c", "s", "s">>, "CSS stylesheet">>,
     <<<<".", "j", "s">>, "JavaScript file">>,
     <<<<".", "t", "s">>, "TypeScript file">>,
     <<<<".", "j", "s", "x">>, "React JavaScript file">>,
     <<<<".", "t", "s", "x">>, "React TypeScript file">>,
     <<<<".", "p", "y">>, "Python script">>,
     <<<<".", "j", "a", "v", "a">>, "Java source file">>,
     <<<<".", "c", "p", "p">>, "C++ source file">>,
     <<<<".", "c">>, "C source file">>,
     <<<<".", "h">>, "C/C++ header file">>,
     <<<<".", "p", "h", "p">>, "PHP script">>,
     <<<<".", "r", "b">>, "Ruby script">>,
     <<<<".", "g", "o">>, "Go source file">>,
     <<<<".", "r", "s">>, "Rust source file">>,
     <<<<".", "s", "h">>, "Shell script">>,
     <<<<".", "b", "a", "t">>, "Batch file">>,
     <<<<".", "p", "s", "1">>, "PowerShell script">>,
     <<<<".", "j", "p", "g">>, "JPEG image">>,
     <<<<".", "j", "p", "e", "g">>, "JPEG image">>,
     <<<<".", "p", "n", "g">>, "PNG image">>,
     <<<<".", "g", "i", "f">>, "GIF image">>,
     <<<<".", "b", "m", "p">>, "Bitmap image">>,
     <<<<".", "s", "v", "g">>, "SVG vector image">>,
     <<<<".", "w", "e", "b", "p">>, "WebP image">>,
     <<<<".", "i", "c", "o">>, "Icon file">>,
     <<<<".", "t", "i", "f", "f">>, "TIFF image">>,
     <<<<".", "t", "i", "f">>, "TIFF image">>,
     <<<<".", "m", "p", "3">>, "MP3 audio file">>,
     <<<<".", "w", "a", "v">>, "WAV audio file">>,
     <<<<".", "f", "l", "a", "c">>, "FLAC audio file">>,
     <<<<".", "a", "a", "c">>, "AAC audio file">>,
     <<<<".", "o", "g", "g">>, "OGG audio file">>,
     <<<<".", "m", "4", "a">>, "M4A audio file">>,
     <<<<".", "m", "p", "4">>, "MP4 video file">>,
     <<<<".", "a", "v", "i">>, "AVI video file">>,
     <<<<".", "m", "o", "v">>, "QuickTime video">>,
     <<<<".", "w", "m", "v">>, "Windows Media video">>,
     <<<<".", "f", "l", "v">>, "Flash video">>,
     <<<<".", "w", "e", "b", "m">>, "WebM video">>,
     <<<<".", "m", "k", "v">>, "Matroska video">>,
     <<<<".", "z", "i", "p">>, "ZIP archive">>,
     <<<<".", "r", "a", "r">>, "RAR archive">>,
     <<<<".", "t", "a", "r">>, "TAR archive">>,
     <<<<".", "g", "z">>, "Gzip compressed file">>,
     <<<<".", "7", "z">>, "7-Zip archive">>,
     <<<<".", "b", "z", "2">>, "Bzip2 compressed file">>,
     <<<<".", "p", "d", "f">>, "PDF document">>,
     <<<<".", "d", "o", "c">>, "Word document">>,
     <<<<".", "d", "o", "c", "x">>, "Word document">>,
     <<<<".", "x", "l", "s">>, "Excel spreadsheet">>,
     <<<<".", "x", "l", "s", "x">>, "Excel spreadsheet">>,
     <<<<".", "p", "p", "t">>, "PowerPoint presentation">>,
     <<<<".", "p", "p", "t", "x">>, "PowerPoint presentation">>,
     <<<<".", "e", "x", "e">>, "Windows executable">>,
     <<<<".", "m", "s", "i">>, "Windows installer">>,
     <<<<".", "d", "e", "b">>, "Debian package">>,
     <<<<".", "r", "p", "m">>, "RPM package">>,
     <<<<".", "d", "m", "g">>, "macOS disk image">>,
     <<<<".", "a", "p", "p">>, "macOS application">>}

\* FileTypeDetector.binaryExtensions
binaryExtensions ==
    {<<".", "e", "x", "e">>, <<".", "d", "l", "l">>, <<".", "s", "o">>,
     <<".", "d", "y", "l", "i", "b">>, <<".", "b", "i", "n">>,
     <<".", "d", "a", "t">>, <<".", "j", "p", "g">>,
     <<".", "j", "p", "e", "g">>, <<".", "p", "n", "g">>,
     <<".", "g", "i", "f">>, <<".", "b", "m", "p">>, <<".", "i", "c", "o">>,
     <<".", "t", "i", "f", "f">>, <<".", "t", "i", "f">>,
     <<".", "w", "e", "b", "p">>, <<".", "m", "p", "3">>,
     <<".", "w", "a", "v">>, <<".", "f", "l", "a", "c">>,
     <<".", "a", "a", "c">>, <<".", "o", "g", "g">>, <<".", "m", "4", "a">>,
     <<".", "m", "p", "4">>, <<".", "a", "v", "i">>, <<".", "m", "o", "v">>,
     <<".", "w", "m", "v">>, <<".", "f", "l", "v">>,
     <<".", "w", "e", "b", "m">>, <<".", "m", "k", "v">>,
     <<".", "z", "i", "p">>, <<".", "r", "a", "r">>, <<".", "t", "a", "r">>,
     <<".", "g", "z">>, <<".", "7", "z">>, <<".", "b", "z", "2">>,
     <<".", "p", "d", "f">>, <<".", "d", "o", "c">>,
     <<".", "d", "o", "c", "x">>, <<".", "x", "l", "s">>,
     <<".", "x", "l", "s", "x">>, <<".", "p", "p", "t">>,
     <<".", "p", "p", "t", "x">>, <<".", "m", "s", "i">>,
     <<".", "d", "e", "b">>, <<".", "r", "p", "m">>, <<".", "d", "m", "g">>,
     <<".", "a", "p", "p">>}

\* FileTypeDetector.executableExtensions
executableExtensions ==
    {<<".", "e", "x", "e">>, <<".", "m", "s", "i">>, <<".", "d", "e", "b">>,
     <<".", "r", "p", "m">>, <<".", "d", "m", "g">>, <<".", "a", "p", "p">>,
     <<".", "s", "h">>, <<".", "b", "a", "t">>, <<".", "p", "s", "1">>,
     <<".", "c", "o", "m">>, <<".", "c", "m", "d">>}

\* table[key] || fallback
lookup(table, key, fallback) ==
    IF \E p \in table : p[1] = key
    THEN (CHOOSE p \in table : p[1] = key)[2]
    ELSE fallback

\* path.extname(filePath).toLowerCase() with the case conversion left out
extOf_caseSensitive(filePath) == pathExt(filePath)

\* path.extname(filePath).toLowerCase()
extOf(filePath) == toLowerCase(pathExt(filePath))

\* FileTypeDetector.detectFromPath
detectFromPath(filePath) ==
    LET ext == extOf(filePath)
        category == lookup(categories, ext, "Unknown")
    IN  [extension |-> ext,
         mimeType |-> lookup(mimeTypes, ext, "application/octet-stream"),
         category |-> category,
         description |-> lookup(descriptions, ext, "Unknown file type"),
         isBinary |-> ext \in binaryExtensions,
         isText |-> ext \notin binaryExtensions,
         isImage |-> category = "Image",
         isVideo |-> category = "Video",
         isAudio |-> category = "Audio",
         isArchive |-> category = "Archive",
         isExecutable |-> ext \in executableExtensions]

\* a Buffer is a sequence of bytes 0..255
HexDigits ==
    <<"0", "1", "2", "3", "4", "5", "6", "7", "8", "9",
      "a", "b", "c", "d", "e", "f">>

\* buffer.toString('hex'): two lower-case digits per byte
toHex(buffer) ==
    [i \in 1..(2 * Len(buffer)) |->
        LET b == buffer[(i + 1) \div 2]
        IN  HexDigits[(IF i % 2 = 1 THEN b \div 16 ELSE b % 16) + 1]]

\* buffer.subarray(0, n)
subarray(buffer, n) == SubSeq(buffer, 1, IF Len(buffer) < n THEN Len(buffer) ELSE n)

\* String.prototype.startsWith
hasPrefix(s, p) == Len(s) >= Len(p) /\ SubSeq(s, 1, Len(p)) = p

\* String.prototype.includes
includes(s, p) ==
    \E k \in 0..(Len(s) - Len(p)) : SubSeq(s, k + 1, k + Len(p)) = p

NoMagic ==
    [found |-> FALSE, mimeType |-> "", category |-> "", description |-> "",
     isBinary |-> FALSE]

Magic(mimeType, category, description) ==
    [found |-> TRUE, mimeType |-> mimeType, category |-> category,
     description |-> description, isBinary |-> TRUE]

\* the length test of detectMagicNumbers with 2 written for 4
tooShort_two(buffer) == Len(buffer) < 2

\* the length test at the entry of detectMagicNumbers
tooShort(buffer) == Len(buffer) < 4

\* FileTypeDetector.detectMagicNumbers: found = FALSE stands for null
detectMagicNumbers(buffer) ==
    LET hex == toUpperCase(toHex(subarray(buffer, 16)))
        riff == hasPrefix(hex, <<"5", "2", "4", "9", "4", "6", "4", "6">>)
    IN  IF tooShort(buffer) THEN NoMagic
        ELSE IF hasPrefix(hex, <<"F", "F", "D", "8", "F", "F">>)
        THEN Magic("image/jpeg", "Image", "JPEG image")
        ELSE IF hasPrefix(hex, <<"8", "9", "5", "0", "4", "E", "4", "7">>)
        THEN Magic("image/png", "Image", "PNG image")
        ELSE IF hasPrefix(hex, <<"4", "7", "4", "9", "4", "6", "3", "8">>)
        THEN Magic("image/gif", "Image", "GIF image")
        ELSE IF hasPrefix(hex, <<"4", "2", "4", "D">>)
        THEN Magic("image/bmp", "Image", "BMP image")
        ELSE IF riff /\ includes(hex, <<"5", "7", "4", "5", "4", "2", "5", "0">>)
        THEN Magic("image/webp", "Image", "WebP image")
        ELSE IF \/ hasPrefix(hex, <<"5", "0", "4", "B", "0", "3", "0", "4">>)
                \/ hasPrefix(hex, <<"5", "0", "4", "B", "0", "5", "0", "6">>)
                \/ hasPrefix(hex, <<"5", "0", "4", "B", "0", "7", "0", "8">>)
        THEN Magic("application/zip", "Archive", "ZIP archive")
        ELSE IF hasPrefix(hex, <<"5", "2", "6", "1", "7", "2", "2", "1", "1", "A", "0", "7">>)
        THEN Magic("application/vnd.rar", "Archive", "RAR archive")
        ELSE IF hasPrefix(hex, <<"3", "7", "7", "A", "B", "C", "A", "F", "2", "7", "1", "C">>)
        THEN Magic("application/x-7z-compressed", "Archive", "7-Zip archive")
        ELSE IF hasPrefix(hex, <<"1", "F", "8", "B">>)
        THEN Magic("application/gzip", "Archive", "Gzip compressed file")
        ELSE IF hasPrefix(hex, <<"2", "5", "5", "0", "4", "4", "4", "6">>)
        THEN Magic("application/pdf", "Document", "PDF document")
        ELSE IF hasPrefix(hex, <<"4", "D", "5", "A">>)
        THEN Magic("application/x-msdownload", "Executable",
                   "Windows executable")
        ELSE IF \/ hasPrefix(hex, <<"4", "9", "4", "4", "3", "3">>)
                \/ hasPrefix(hex, <<"F", "F", "F", "B">>)
                \/ hasPrefix(hex, <<"F", "F", "F", "3">>)
                \/ hasPrefix(hex, <<"F", "F", "F", "2">>)
        THEN Magic("audio/mpeg", "Audio", "MP3 audio file")
        ELSE IF riff /\ includes(hex, <<"5", "7", "4", "1", "5", "6", "4", "5">>)
        THEN Magic("audio/wav", "Audio", "WAV audio file")
        ELSE IF \/ includes(hex, <<"6", "6", "7", "4", "7", "9", "7", "0", "6", "D", "7", "0", "3", "4", "3", "2">>)
                \/ includes(hex, <<"6", "6", "7", "4", "7", "9", "7", "0", "6", "D", "7", "0", "3", "4", "3", "1">>)
        THEN Magic("video/mp4", "Video", "MP4 video file")
        ELSE IF riff /\ includes(hex, <<"4", "1", "5", "6", "4", "9">>)
        THEN Magic("video/x-msvideo", "Video", "AVI video file")
        ELSE NoMagic

\* readFile(filePath): it rejects for a file that cannot be read
readFile(readable, content) == [ok |-> readable, buffer |-> content]

\* the override that leaves isText as the extension gave it
override_keepText(baseInfo, magicInfo) ==
    [baseInfo EXCEPT
        !.mimeType = magicInfo.mimeType,
        !.category = magicInfo.category,
        !.description = magicInfo.description,
        !.isBinary = magicInfo.isBinary,
        !.isImage = magicInfo.category = "Image",
        !.isVideo = magicInfo.category = "Video",
        !.isAudio = magicInfo.category = "Audio",
        !.isArchive = magicInfo.category = "Archive"]

\* { ...baseInfo, mimeType: magicInfo.mimeType, ... }
override(baseInfo, magicInfo) ==
    [baseInfo EXCEPT
        !.mimeType = magicInfo.mimeType,
        !.category = magicInfo.category,
        !.description = magicInfo.description,
        !.isBinary = magicInfo.isBinary,
        !.isText = ~magicInfo.isBinary,
        !.isImage = magicInfo.category = "Image",
        !.isVideo = magicInfo.category = "Video",
        !.isAudio = magicInfo.category = "Audio",
        !.isArchive = magicInfo.category = "Archive"]

\* a detectFromContent that answers with an unknown binary type, not with
\* the extension's, when the content tells nothing
detectFromContent_noFallback(filePath, readable, content) ==
    LET baseInfo == detectFromPath(filePath)
        r == readFile(readable, content)
        magicInfo == detectMagicNumbers(r.buffer)
    IN  IF r.ok /\ magicInfo.found
        THEN override(baseInfo, magicInfo)
        ELSE override(baseInfo,
                      Magic("application/octet-stream", "Unknown",
                            "Unknown file type"))

\* FileTypeDetector.detectFromContent for a file with the given content;
\* the rejection of readFile is caught and leads to the last return
detectFromContent(filePath, readable, content) ==
    LET baseInfo == detectFromPath(filePath)
        r == readFile(readable, content)
        magicInfo == detectMagicNumbers(r.buffer)
    IN  IF r.ok /\ magicInfo.found
        THEN override(baseInfo, magicInfo)
        ELSE baseInfo

\* the longest content a file is given
MaxBufLen == 17

\* four-byte words the contents are made of
Zero == <<0, 0, 0, 0>>
RIFF == <<82, 73, 70, 70>>
WAVE == <<87, 65, 86, 69>>
WEBP == <<87, 69, 66, 80>>
AVI == <<65, 86, 73, 32>>
Ftyp == <<102, 116, 121, 112>>

\* the first words of files of the known formats, of a text file, of a
\* central-directory record of a ZIP file (no signature) and of a file of
\* zeroes
Heads ==
    {<<255, 216, 255, 224>>, <<137, 80, 78, 71>>, <<71, 73, 70, 56>>, <<66, 77, 0, 0>>, <<80, 75, 3, 4>>,
     <<80, 75, 5, 6>>, <<80, 75, 7, 8>>, <<31, 139, 8, 0>>, <<37, 80, 68, 70>>, <<77, 90, 144, 0>>,
     <<73, 68, 51, 3>>, <<255, 251, 144, 0>>, <<255, 243, 144, 0>>, <<255, 242, 144, 0>>, <<104, 101, 108, 108>>,
     <<80, 75, 1, 2>>, Zero}

\* the first 16 bytes of the files
Samples ==
    {h \o Zero \o Zero \o Zero : h \in Heads}
    \cup {<<82, 97, 114, 33>> \o w \o Zero \o Zero : w \in {<<26, 7, 0, 0>>, Zero}}
    \cup {<<55, 122, 188, 175>> \o w \o Zero \o Zero : w \in {<<39, 28, 0, 0>>, Zero}}
    \cup {<<0, 0, 0, 24>> \o Ftyp \o w \o Zero :
              w \in {<<109, 112, 52, 50>>, <<109, 112, 52, 49>>, <<105, 115, 111, 109>>}}
    \cup {Zero \o Zero \o Ftyp \o <<109, 112, 52, 50>>}
    \cup {RIFF \o Zero \o marker \o w :
              marker \in {WAVE, WEBP, AVI, Zero},
              w \in {Zero, WEBP, WAVE, AVI, <<116, 84, 37, 0>>}}

\* the contents: a sample followed by the bytes "WEBP", cut at any length
Contents ==
    {SubSeq(s \o WEBP, 1, n) : s \in Samples, n \in 0..MaxBufLen}

TypePaths ==
    { <<"a", ".", "p", "n", "g">>, <<"a", ".", "t", "x", "t">>,
      <<"a", ".", "E", "X", "E">>, <<"a", ".", "w", "a", "v">>,
      <<"a", ".", "x", "y", "z">>, <<"a">>}

InitType ==
    /\ WalkIdle
    /\ pc = "detectFromContent"
    /\ call \in [filePath : TypePaths, readable : BOOLEAN, content : Contents]
    /\ ret = Pending

CallDetectFromContent ==
    /\ pc = "detectFromContent"
    /\ ret = Pending
    /\ ret' = [done |-> TRUE,
               info |-> detectFromContent(call.filePath, call.readable,
                                          call.content)]
    /\ UNCHANGED <<walkVars, call>>

SpecType == InitType /\ [][CallDetectFromContent]_vars

Detected == pc = "detectFromContent" /\ ret.done

\* C16 as stated: a content of fewer than 16 bytes is never classified by
\* signature, the result is that of detectFromPath.
C16_BelowSixteen ==
    (Detected /\ Len(call.content) < 16) =>
        ret.info = detectFromPath(call.filePath)

\* C16 amended: a content of fewer than 4 bytes is never classified by
\* signature, the result is that of detectFromPath, even when the content
\* starts with a known signature.
C16_BelowFour ==
    (Detected /\ Len(call.content) < 4) =>
        ret.info = detectFromPath(call.filePath)

\* the three bytes FF D8 FF of a JPEG file, read from a.txt
C16_Witness ==
    /\ Detected
    /\ call.readable
    /\ call.content = <<255, 216, 255>>
    /\ call.filePath = <<"a", ".", "t", "x", "t">>
    /\ ret.info.category = "Text"

\* bytes 8 to 11 of a content (counted from 0)
MarkerOf(content) == SubSeq(content, 9, 12)

\* C17: for a content that starts with RIFF the format marker at bytes 8-11
\* decides among WAV, AVI and WebP, whatever the other bytes are.
C17_MarkerDecides ==
    (Detected /\ call.readable /\ Len(call.content) >= 12
              /\ SubSeq(call.content, 1, 4) = RIFF) =>
        /\ MarkerOf(call.content) = WAVE => ret.info.mimeType = "audio/wav"
        /\ MarkerOf(call.content) = AVI =>
               ret.info.mimeType = "video/x-msvideo"
        /\ MarkerOf(call.content) = WEBP => ret.info.mimeType = "image/webp"

\* C18: when the content matches a signature the result has the signature's
\* mimeType, category, description and isBinary, booleans derived from them,
\* and the lower-cased extension of the path; a content starting with
\* 89 50 4E 47 is image/png, Image, binary whatever the extension.
C18_SignatureOverrides ==
    LET m == detectMagicNumbers(call.content)
        r == ret.info
    IN  (Detected /\ call.readable) =>
            /\ m.found =>
                /\ r.mimeType = m.mimeType
                /\ r.category = m.category
                /\ r.description = m.description
                /\ r.isBinary = m.isBinary
                /\ r.isText = ~r.isBinary
                /\ r.isImage = (r.category = "Image")
                /\ r.isVideo = (r.category = "Video")
                /\ r.isAudio = (r.category = "Audio")
                /\ r.isArchive = (r.category = "Archive")
                /\ r.extension = toLowerCase(pathExt(call.filePath))
            /\ hasPrefix(call.content, <<137, 80, 78, 71>>) =>
                /\ r.mimeType = "image/png"
                /\ r.category = "Image"
                /\ r.isBinary

\* a PNG header read from a.EXE
C18_Witness ==
    /\ Detected
    /\ call.readable
    /\ call.filePath = <<"a", ".", "E", "X", "E">>
    /\ hasPrefix(call.content, <<137, 80, 78, 71>>)
    /\ ret.info.extension = <<".", "e", "x", "e">>

\* C19: when the file cannot be read, or is read and matches no signature,
\* the result is field by field that of detectFromPath.
C19_FallsBack ==
    (Detected /\ (~call.readable \/ ~detectMagicNumbers(call.content).found))
        => ret.info = detectFromPath(call.filePath)

\* a.txt holds a PNG header and cannot be read
C19_Witness ==
    /\ Detected
    /\ ~call.readable
    /\ call.filePath = <<"a", ".", "t", "x", "t">>
    /\ hasPrefix(call.content, <<137, 80, 78, 71>>)
    /\ ret.info.mimeType = "text/plain"

(***************************************************************************)
(* FileTypeDetector.detectFromPath as a function of the path: C20          *)
(***************************************************************************)

\* the extensions the tables know
KnownExtensions == {p[1] : p \in mimeTypes}

\* base names: one per known extension, in lower and in upper case, and
\* names with an unknown extension, with no extension, with a leading dot
\* only, with a trailing dot and with two extensions
PathNames ==
    {<<"f">> \o e : e \in KnownExtensions}
    \cup {<<"f">> \o toUpperCase(e) : e \in KnownExtensions}
    \cup { <<"f", ".", "x", "y", "z">>, <<"f", ".", "X", "y", "z">>, <<"f">>,
           <<".", "t", "x", "t">>, <<"f", ".">>,
           <<"f", ".", "t", "a", "r", ".", "G", "Z">>,
           <<"f", ".", "P", "n", "g">>}

InitPath ==
    /\ WalkIdle
    /\ pc = "detectFromPath"
    /\ call \in [filePath : PathNames]
    /\ ret = Pending

CallDetectFromPath ==
    /\ pc = "detectFromPath"
    /\ ret = Pending
    /\ ret' = [done |-> TRUE, info |-> detectFromPath(call.filePath)]
    /\ UNCHANGED <<walkVars, call>>

SpecPath == InitPath /\ [][CallDetectFromPath]_vars

\* C20: detectFromPath answers for every path; without an extension, or
\* with one the tables do not know, the category is Unknown and the MIME
\* type application/octet-stream; paths whose extensions differ only in
\* letter case get the same extension, MIME type, category and booleans;
\* isText is the negation of isBinary.
C20_TotalCaseInsensitive ==
    (pc = "detectFromPath" /\ ret.done) =>
        LET r == ret.info
            ext == pathExt(call.filePath)
        IN  /\ toLowerCase(ext) \notin KnownExtensions =>
                /\ r.category = "Unknown"
                /\ r.mimeType = "application/octet-stream"
            /\ \A q \in PathNames :
                   toLowerCase(pathExt(q)) = toLowerCase(ext) =>
                       detectFromPath(q) = r
            /\ r.isText = ~r.isBinary

\* f.PNG is classified as f.png is
C20_Witness ==
    /\ pc = "detectFromPath"
    /\ ret.done
    /\ call.filePath = <<"f", ".", "P", "N", "G">>
    /\ ret.info.extension = <<".", "p", "n", "g">>
    /\ ret.info.category = "Image"

(***************************************************************************)
(* FileTypeDetector.isTextFile: C21                                        *)
(***************************************************************************)

\* A file content is written as a sequence of runs [b, n]: n bytes of value
\* b. readFile with the 'binary' encoding gives a string with one character
\* per byte, whose char code is the byte.

\* how many runs a content has at most
MaxRuns == 2

\* the number of characters isTextFile looks at
SampleSize == 8192

Run(b, n) == [b |-> b, n |-> n]

RECURSIVE lengthOf(_)
\* String.prototype.length
lengthOf(runs) ==
    IF runs = <<>> THEN 0 ELSE Head(runs).n + lengthOf(Tail(runs))

\* a sample that is the whole content
slice_whole(runs, end) == runs

RECURSIVE slice(_, _)
\* String.prototype.slice(0, end)
slice(runs, end) ==
    IF runs = <<>> \/ end <= 0 THEN <<>>
    ELSE IF Head(runs).n >= end THEN <<Run(Head(runs).b, end)>>
    ELSE <<Head(runs)>> \o slice(Tail(runs), end - Head(runs).n)

\* char < 32 && char !== 9 && char !== 10 && char !== 13
isNonPrintable(char) == char < 32 /\ char # 9 /\ char # 10 /\ char # 13

RECURSIVE countNonPrintable(_)
\* the loop over the sample
countNonPrintable(sample) ==
    IF sample = <<>> THEN 0
    ELSE (IF isNonPrintable(Head(sample).b) THEN Head(sample).n ELSE 0)
         + countNonPrintable(Tail(sample))

\* (nonPrintable / length) < 0.3 in double arithmetic: 0 / 0 is NaN, which
\* is below nothing; for 0 < length <= SampleSize the quotient is the double
\* 0.3 itself when 10 * nonPrintable = 3 * length and is otherwise further
\* from 3/10 than the rounding error, so the comparison is the exact one
ratioBelowThreshold(nonPrintable, length) ==
    length # 0 /\ 10 * nonPrintable < 3 * length

\* FileTypeDetector.isTextFile; a rejection of readFile is caught
isTextFile(readable, content) ==
    IF ~readable THEN FALSE
    ELSE LET sample == slice(content, SampleSize)
         IN  ratioBelowThreshold(countNonPrintable(sample), lengthOf(sample))

TextBytes == {0, 9, 10, 13, 31, 32}
RunLengths == {1, 3, 7, 2457, 5735, 8192}

RECURSIVE RunsUpTo(_)
RunsUpTo(n) ==
    IF n = 0 THEN {<<>>}
    ELSE RunsUpTo(n - 1)
         \cup {Append(r, Run(b, k)) : r \in {q \in RunsUpTo(n - 1) : Len(q) = n - 1},
                                      b \in TextBytes, k \in RunLengths}

InitText ==
    /\ WalkIdle
    /\ pc = "isTextFile"
    /\ call \in [readable : BOOLEAN, content : RunsUpTo(MaxRuns)]
    /\ ret = Pending

CallIsTextFile ==
    /\ pc = "isTextFile"
    /\ ret = Pending
    /\ ret' = [done |-> TRUE, val |-> isTextFile(call.readable, call.content)]
    /\ UNCHANGED <<walkVars, call>>

SpecText == InitText /\ [][CallIsTextFile]_vars

\* the offset at which run k of the content starts
OffsetOf(runs, k) == lengthOf(SubSeq(runs, 1, k - 1))

Least(a, b) == IF a < b THEN a ELSE b

\* how many bytes of run k lie among the first SampleSize bytes
SampledOf(runs, k) ==
    LET from == Least(OffsetOf(runs, k), SampleSize)
        to == Least(OffsetOf(runs, k) + runs[k].n, SampleSize)
    IN  to - from

RECURSIVE SumOver(_, _)
SumOver(f, S) ==
    IF S = {} THEN 0
    ELSE LET x == CHOOSE x \in S : TRUE IN f[x] + SumOver(f, S \ {x})

OctalDigits == <<"0", "1", "2", "3", "4", "5", "6", "7">>

\* Number(c) for an octal digit c
digitValue(c) == (CHOOSE i \in DOMAIN OctalDigits : OctalDigits[i] = c) - 1

\* value.toString() for 0 <= value <= 7
digitString(value) == OctalDigits[value + 1]

\* digit & mask for a mask of one bit
bitAnd(digit, mask) == ((digit \div mask) % 2) * mask

\* /^[0-7]{3}$/.test(octal)
isOctalFormat(octal) ==
    /\ Len(octal) = 3
    /\ \A i \in 1..3 : \E j \in DOMAIN OctalDigits : OctalDigits[j] = octal[i]

\* /^[r-][w-][x-][r-][w-][x-][r-][w-][x-]$/.test(symbolic)
isSymbolicFormat(symbolic) ==
    /\ Len(symbolic) = 9
    /\ \A i \in 1..9 :
           symbolic[i] \in {"-", <<"r", "w", "x">>[((i - 1) % 3) + 1]}

Thrown == [threw |-> TRUE, val |-> <<>>]
Returned(v) == [threw |-> FALSE, val |-> v]

\* the group of one digit
groupOf(digit) ==
    <<IF bitAnd(digit, 4) # 0 THEN "r" ELSE "-",
      IF bitAnd(digit, 2) # 0 THEN "w" ELSE "-",
      IF bitAnd(digit, 1) # 0 THEN "x" ELSE "-">>

\* PermissionChecker.octalToSymbolic
octalToSymbolic(octal) ==
    IF ~isOctalFormat(octal) THEN Thrown
    ELSE Returned(groupOf(digitValue(octal[1]))
                  \o groupOf(digitValue(octal[2]))
                  \o groupOf(digitValue(octal[3])))

\* the value of a group with the weights of w and x exchanged
valueOf_swapped(group) ==
    (IF group[1] = "r" THEN 4 ELSE 0)
    + (IF group[2] = "w" THEN 1 ELSE 0)
    + (IF group[3] = "x" THEN 2 ELSE 0)

\* the value of one group of three characters
valueOf(group) ==
    (IF group[1] = "r" THEN 4 ELSE 0)
    + (IF group[2] = "w" THEN 2 ELSE 0)
    + (IF group[3] = "x" THEN 1 ELSE 0)

\* PermissionChecker.symbolicToOctal
symbolicToOctal(symbolic) ==
    IF ~isSymbolicFormat(symbolic) THEN Thrown
    ELSE Returned(<<digitString(valueOf(SubSeq(symbolic, 1, 3))),
                    digitString(valueOf(SubSeq(symbolic, 4, 6))),
                    digitString(valueOf(SubSeq(symbolic, 7, 9)))>>)

\* the 512 strings 000..777
OctalStrings ==
    {[i \in 1..3 |-> OctalDigits[d[i] + 1]] : d \in [1..3 -> 0..7]}

\* the 512 strings ---------..rwxrwxrwx
SymbolicStrings ==
    {[i \in 1..9 |-> IF b[i] THEN <<"r", "w", "x">>[((i - 1) % 3) + 1]
                     ELSE "-"] : b \in [1..9 -> BOOLEAN]}

\* strings that are in neither format
OtherStrings ==
    {<<>>, <<"7", "5">>, <<"7", "5", "5", "5">>, <<"7", "5", "8">>,
     <<"7", "5", "5", "\n">>, <<"0", "7", "5", "5">>,
     <<"r", "w", "x", "r", "w", "x", "r", "w">>,
     <<"r", "w", "x", "r", "w", "x", "r", "w", "x", "r">>,
     <<"w", "r", "x", "r", "w", "x", "r", "w", "x">>,
     <<"R", "W", "X", "r", "w", "x", "r", "w", "x">>,
     <<"r", "w", "x", "r", "-", "x", "r", "-", "t">>,
     <<"r", "w", "x", "r", "-", "x", "r", "-", "x", "\n">>,
     <<"r", "w", "x">>, <<"-", "r", "w", "x", "r", "-", "x", "r", "-", "x">>}

\* In this specification ret is the sequence of the results so far: the
\* first call is given call.arg, the second the value the first returned.
InitPerm ==
    /\ WalkIdle
    /\ pc \in {"octalToSymbolic", "symbolicToOctal"}
    /\ call \in [arg : OctalStrings \cup SymbolicStrings \cup OtherStrings]
    /\ ret = <<>>

\* the argument of the next call
NextArg == IF ret = <<>> THEN call.arg ELSE ret[Len(ret)].val

CanCall == Len(ret) < 2 /\ (ret # <<>> => ~ret[Len(ret)].threw)

CallOctalToSymbolic ==
    /\ pc = "octalToSymbolic"
    /\ CanCall
    /\ ret' = Append(ret, octalToSymbolic(NextArg))
    /\ pc' = "symbolicToOctal"
    /\ UNCHANGED <<fs, opts, stack, files, directories, result, probed,
                   visited, listed, call>>

CallSymbolicToOctal ==
    /\ pc = "symbolicToOctal"
    /\ CanCall
    /\ ret' = Append(ret, symbolicToOctal(NextArg))
    /\ pc' = "octalToSymbolic"
    /\ UNCHANGED <<fs, opts, stack, files, directories, result, probed,
                   visited, listed, call>>

NextPerm == CallOctalToSymbolic \/ CallSymbolicToOctal

SpecPerm == InitPerm /\ [][NextPerm]_vars

\* the function that was called first
FirstIsOctalToSymbolic ==
    (Len(ret) = 1 /\ pc = "symbolicToOctal")
    \/ (Len(ret) = 2 /\ pc = "octalToSymbolic")

\* C22: each conversion rejects what is outside its domain, maps its domain
\* into the domain of the other, and the other conversion gives the
\* argument back.
C22_InverseBijections ==
    (pc \in {"octalToSymbolic", "symbolicToOctal"} /\ ret # <<>>) =>
        LET domain == IF FirstIsOctalToSymbolic THEN OctalStrings
                      ELSE SymbolicStrings
            range == IF FirstIsOctalToSymbolic THEN SymbolicStrings
                     ELSE OctalStrings
        IN  /\ ret[1].threw <=> call.arg \notin domain
            /\ ~ret[1].threw => ret[1].val \in range
            /\ Len(ret) = 2 => ~ret[2].threw /\ ret[2].val = call.arg

\* rw-r-xr-- went to 654 and came back
C22_Witness ==
    /\ pc = "symbolicToOctal"
    /\ Len(ret) = 2
    /\ call.arg = <<"r", "w", "-", "r", "-", "x", "r", "-", "-">>
    /\ ret[1].val = <<"6", "5", "4">>
    /\ ret[2].val = call.arg

(***************************************************************************)
(* SizeCalculator.parseSize: C23                                           *)
(***************************************************************************)

DecimalDigits == <<"0", "1", "2", "3", "4", "5", "6", "7", "8", "9">>

isDigit(c) == \E i \in DOMAIN DecimalDigits : DecimalDigits[i] = c

decimalValue(c) ==
    (CHOOSE i \in DOMAIN DecimalDigits : DecimalDigits[i] = c) - 1

isSpace(c) == c \in {" ", "\t"}

RECURSIVE spanOf(_, _, _)
\* the number of characters from position i on that satisfy ok[c]
spanOf(s, i, ok) ==
    IF i > Len(s) \/ ~ok[s[i]] THEN 0 ELSE 1 + spanOf(s, i + 1, ok)

CharsOf(s) == {s[i] : i \in DOMAIN s}

\* the unit texts [KMGTPE]?B? matches, upper-cased
UnitTexts ==
    {<<>>, <<"B">>}
    \cup {<<c>> : c \in {"K", "M", "G", "T", "P", "E"}}
    \cup {<<c, "B">> : c \in {"K", "M", "G", "T", "P", "E"}}

\* sizeString.match(/^(\d+(?:\.\d+)?)\s*([KMGTPE]?B?)$/i): the two groups,
\* or ok = FALSE for null
matchSize(s) ==
    LET digit == [c \in CharsOf(s) |-> isDigit(c)]
        space == [c \in CharsOf(s) |-> isSpace(c)]
        intLen == spanOf(s, 1, digit)
        fracLen == IF intLen < Len(s) /\ s[intLen + 1] = "."
                   THEN spanOf(s, intLen + 2, digit) ELSE 0
        numLen == IF fracLen > 0 THEN intLen + 1 + fracLen ELSE intLen
        spaces == spanOf(s, numLen + 1, space)
        unit == SubSeq(s, numLen + spaces + 1, Len(s))
    IN  IF intLen > 0 /\ toUpperCase(unit) \in UnitTexts
        THEN [ok |-> TRUE, number |-> SubSeq(s, 1, numLen), unit |-> unit]
        ELSE [ok |-> FALSE, number |-> <<>>, unit |-> <<>>]

RECURSIVE digitsValue(_)
\* the integer a string of digits writes
digitsValue(s) ==
    IF s = <<>> THEN 0
    ELSE 10 * digitsValue(SubSeq(s, 1, Len(s) - 1)) + decimalValue(s[Len(s)])

RECURSIVE pow10(_)
pow10(n) == IF n = 0 THEN 1 ELSE 10 * pow10(n - 1)

\* parseFloat(number) as the fraction n / 10^f
parseFloat(number) ==
    LET dot == spanOf(number, 1, [c \in CharsOf(number) |-> c # "."])
        f == IF dot = Len(number) THEN 0 ELSE Len(number) - dot - 1
    IN  [n |-> digitsValue(SubSeq(number, 1, dot)
                           \o SubSeq(number, dot + 2, Len(number))),
         f |-> f]

\* multipliers[unit] || 1, as the power k of 1024 = 1024^k
powerOf(unit) ==
    CASE unit = <<"B">> -> 0
      [] unit = <<"K", "B">> -> 1
      [] unit = <<"M", "B">> -> 2
      [] unit = <<"G", "B">> -> 3
      [] unit = <<"T", "B">> -> 4
      [] unit = <<"P", "B">> -> 5
      [] OTHER -> 0

\* Numbers beyond 2^31 are written in base 1024, most significant limb
\* first; only the first limb may exceed 1023.
RECURSIVE divideLimbs(_, _, _)
\* the limbs of floor(limbs / d), r the remainder carried in
divideLimbs(limbs, d, r) ==
    IF limbs = <<>> THEN <<>>
    ELSE LET cur == r * 1024 + Head(limbs)
         IN  <<cur \div d>> \o divideLimbs(Tail(limbs), d, cur % d)

\* Math.round(value * 1024^k) for value = n / 10^f: floor((2 n 1024^k +
\* 10^f) / (2 10^f))
roundScaled(value, k) ==
    LET d == pow10(value.f)
        numerator == IF k = 0 THEN <<2 * value.n + d>>
                     ELSE <<2 * value.n>> \o [i \in 1..(k - 1) |-> 0] \o <<d>>
    IN  divideLimbs(numerator, 2 * d, 0)

\* SizeCalculator.parseSize
parseSize(sizeString) ==
    LET match == matchSize(sizeString)
        value == parseFloat(match.number)
        unit == toUpperCase(IF match.unit = <<>> THEN <<"B">> ELSE match.unit)
    IN  IF ~match.ok THEN [threw |-> TRUE, val |-> <<>>]
        ELSE [threw |-> FALSE, val |-> roundScaled(value, powerOf(unit))]

NumberTexts ==
    {<<"1">>, <<"5">>, <<"1", "2">>, <<"1", ".", "5">>, <<"0", ".", "5">>,
     <<"1", ".", "2", "5">>, <<"1", "0", "2", "4">>, <<".", "5">>,
     <<"1", ".">>, <<>>, <<"-", "1">>}

SpaceTexts == {<<>>, <<" ">>}

UnitSuffixes ==
    UnitTexts
    \cup {<<"b">>, <<"k", "b">>, <<"M", "b">>, <<"k">>, <<"X">>, <<"B", "K">>,
          <<"K", "B", "B">>, <<"M", "i", "B">>, <<"K", "B", " ">>}

InitSize ==
    /\ WalkIdle
    /\ pc = "parseSize"
    /\ call \in {[sizeString |-> n \o s \o u, number |-> n, unit |-> u] :
                     n \in NumberTexts, s \in SpaceTexts, u \in UnitSuffixes}
    /\ ret = Pending

CallParseSize ==
    /\ pc = "parseSize"
    /\ ret = Pending
    /\ LET r == parseSize(call.sizeString)
       IN  ret' = [done |-> TRUE, threw |-> r.threw, val |-> r.val]
    /\ UNCHANGED <<walkVars, call>>

SpecSize == InitSize /\ [][CallParseSize]_vars

\* the multiplier of a written unit, as a power of 1024: no unit or B = 1,
\* KB = 1024, ... PB = 1024^5; -1 for any other text
WrittenPower(u) ==
    LET U == toUpperCase(u)
    IN  CASE U \in {<<>>, <<"B">>} -> 0
          [] U = <<"K", "B">> -> 1
          [] U = <<"M", "B">> -> 2
          [] U = <<"G", "B">> -> 3
          [] U = <<"T", "B">> -> 4
          [] U = <<"P", "B">> -> 5
          [] OTHER -> -1

\* C23: parseSize rejects, or returns the written number times the
\* multiplier of the written unit, rounded; a string with a unit suffix is
\* never accepted with the number left unscaled.
C23_ScaledOrRejected ==
    (pc = "parseSize" /\ ret.done /\ ~ret.threw) =>
        /\ WrittenPower(call.unit) >= 0
        /\ ret.val = roundScaled(parseFloat(call.number),
                                 WrittenPower(call.unit))

(***************************************************************************)
(* The entries of a SearchResult: C24                                      *)
(***************************************************************************)

\* C24: the extension of every entry search returns is lower-cased and
\* starts with the dot.
C24_ExtensionLowerCased ==
    Done =>
        \A e \in Range(result.files) \cup Range(result.directories) :
            /\ e.extension = toLowerCase(e.extension)
            /\ e.extension # <<>> => e.extension[1] = "."

(***************************************************************************)
(* FileSearch.findLargeFiles and FileSearch.findRecentFiles: C25           *)
(***************************************************************************)

\* a comparator that orders by size ascending
compareSize_ascending(a, b) == a.size - b.size

\* (a, b) => b.size - a.size
compareSize(a, b) == b.size - a.size

\* (a, b) => b.modifiedAt.getTime() - a.modifiedAt.getTime()
compareModifiedAt(a, b) == b.modifiedAt - a.modifiedAt

\* x put into the sorted sequence s behind every element that is not to
\* come after it (cmp[y, x] <= 0)
insertSorted(s, x, cmp) ==
    LET keep == {i \in 0..Len(s) : \A j \in 1..i : cmp[s[j], x] <= 0}
        at == CHOOSE i \in keep : \A j \in keep : j <= i
    IN  SubSeq(s, 1, at) \o <<x>> \o SubSeq(s, at + 1, Len(s))

RECURSIVE sort(_, _)
\* Array.prototype.sort(cmp), which is stable
sort(s, cmp) ==
    IF s = <<>> THEN <<>>
    ELSE insertSorted(sort(SubSeq(s, 1, Len(s) - 1), cmp), s[Len(s)], cmp)

\* the sizes and dates the helpers are called with
MinSizes == {0, 1, 5, 8}
SinceDates == {1, 2, 3}

InitFind ==
    /\ fs = Tree(TRUE)
    /\ opts = NoOptions
    /\ stack = <<>>
    /\ files = <<>>
    /\ directories = <<>>
    /\ result = NoResult
    /\ pc = "idle"
    /\ probed = <<>>
    /\ visited = <<>>
    /\ listed = <<>>
    /\ call \in [helper : {"findLargeFiles"}, arg : MinSizes]
             \cup [helper : {"findRecentFiles"}, arg : SinceDates]
    /\ ret = Pending

\* findLargeFiles up to its await
FindLargeFiles ==
    /\ pc = "idle"
    /\ call.helper = "findLargeFiles"
    /\ Search([NoOptions EXCEPT !.has = {"minSize"}, !.minSize = call.arg])

\* findLargeFiles after the await
ReturnLargeFiles ==
    /\ pc = "done"
    /\ call.helper = "findLargeFiles"
    /\ ret = Pending
    /\ ret' = [done |-> TRUE,
               val |-> sort(result.files,
                            [a, b \in Range(result.files) |->
                                compareSize(a, b)])]
    /\ UNCHANGED <<walkVars, call>>

\* findRecentFiles up to its await
FindRecentFiles ==
    /\ pc = "idle"
    /\ call.helper = "findRecentFiles"
    /\ Search([NoOptions EXCEPT !.has = {"modifiedSince"},
                                !.modifiedSince = call.arg])

\* findRecentFiles after the await
ReturnRecentFiles ==
    /\ pc = "done"
    /\ call.helper = "findRecentFiles"
    /\ ret = Pending
    /\ ret' = [done |-> TRUE,
               val |-> sort(result.files,
                            [a, b \in Range(result.files) |->
                                compareModifiedAt(a, b)])]
    /\ UNCHANGED <<walkVars, call>>

NextFind ==
    \/ FindLargeFiles
    \/ FindRecentFiles
    \/ Enter
    \/ Iterate
    \/ Return
    \/ Finish
    \/ ReturnLargeFiles
    \/ ReturnRecentFiles

SpecFind == InitFind /\ [][NextFind]_vars

\* how often x occurs in the sequence s
Occurrences(s, x) == Cardinality({i \in DOMAIN s : s[i] = x})

\* C25: the helpers return the files of search with the one option minSize
\* or modifiedSince, nothing added or removed, in non-increasing order of
\* size and of modification time respectively.
C25_SortedSameFiles ==
    (pc = "done" /\ ret.done) =>
        /\ opts.has = (IF call.helper = "findLargeFiles" THEN {"minSize"}
                       ELSE {"modifiedSince"})
        /\ call.helper = "findLargeFiles" => opts.minSize = call.arg
        /\ call.helper = "findRecentFiles" => opts.modifiedSince = call.arg
        /\ Len(ret.val) = Len(result.files)
        /\ \A x \in Range(result.files) \cup Range(ret.val) :
               Occurrences(ret.val, x) = Occurrences(result.files, x)
        /\ \A i \in 1..(Len(ret.val) - 1) :
               IF call.helper = "findLargeFiles"
               THEN ret.val[i].size >= ret.val[i + 1].size
               ELSE ret.val[i].modifiedAt >= ret.val[i + 1].modifiedAt

\* findLargeFiles returned at least three files in another order than the
\* walk found them
C25_Witness ==
    /\ pc = "done"
    /\ ret.done
    /\ call.helper = "findLargeFiles"
    /\ Len(ret.val) >= 3
    /\ ret.val # result.files

(***************************************************************************)
(* The order of the walk: C26, C27                                         *)
(***************************************************************************)

\* where in the enumeration of its parent the entry at path comes
PositionOf(path) ==
    LET items == readdir(fs, SubSeq(path, 1, Len(path) - 1)).items
    IN  CHOOSE i \in DOMAIN items : items[i] = Leaf(path)

\* s and a are children of one directory and s is enumerated after a
LaterSibling(s, a) ==
    /\ Len(s) = Len(a)
    /\ SubSeq(s, 1, Len(s) - 1) = SubSeq(a, 1, Len(a) - 1)
    /\ PositionOf(s) > PositionOf(a)

ProperPrefix(p, q) == Len(p) < Len(q) /\ SubSeq(q, 1, Len(p)) = p

\* a recorded directory precedes the recorded directories below it
ParentsFirst ==
    \A i, j \in DOMAIN directories :
        ProperPrefix(directories[i].path, directories[j].path) => i < j

\* an entry is not recorded once a later sibling of it, or of a directory
\* above it, has been processed
SubtreesWhole ==
    \A e \in (Range(files') \ Range(files))
             \cup (Range(directories') \ Range(directories)) :
        \A k \in 2..Len(e.path) :
            \A s \in ProbedPaths : ~LaterSibling(s, SubSeq(e.path, 1, k))

\* C26: the walk is depth-first in pre-order: a recorded directory comes
\* before every recorded directory of its subtree, and all entries of a
\* subtree are recorded before a later sibling of its root is processed.
C26_DepthFirstPreOrder == [](pc = "walking" => ParentsFirst) /\ [][SubtreesWhole]_vars

\* sub and sub/deep were recorded in this order, c.js below them was
\* collected, and the later sibling priv of sub was recorded after them
C26_Witness ==
    /\ Done
    /\ \E i, j, k \in DOMAIN directories :
           /\ i < j /\ j < k
           /\ directories[i].path = <<Root, 4>>
           /\ directories[j].path = <<Root, 4, 11>>
           /\ directories[k].path = <<Root, 8>>
    /\ \E f \in Range(files) : f.path = <<Root, 4, 11, 14>>

\* C27: in one walk no directory path is enumerated twice and no child is
\* stat'ed more than once, whatever followSymlinks is.
C27_SingleProbe ==
    /\ \A i, j \in DOMAIN listed : i # j => listed[i] # listed[j]
    /\ \A i, j \in DOMAIN probed : i # j => probed[i][1] # probed[j][1]

(***************************************************************************)
(* utils.ts: the 'failed' list of batchFileInfo: C28                       *)
(***************************************************************************)

\* C28: every element of 'failed' names an input path whose getFileInfo
\* failed, with the message of that failure; no path that succeeded is
\* reported in 'failed'.
C28_FailedAreFailures ==
    (pc = "batchFileInfo" /\ ret.done) =>
        \A i \in DOMAIN ret.failed :
            LET entry == ret.failed[i]
                outcome == settle(call.accessible, entry.filePath)
            IN  /\ \E k \in DOMAIN call.filePaths :
                       call.filePaths[k] = entry.filePath
                /\ outcome.status = "rejected"
                /\ entry.error = outcome.reason

(***************************************************************************)
(* utils.ts: findByTypeAndSize: C29                                        *)
(***************************************************************************)

RECURSIVE listOf(_)
\* the elements of a set as an array
listOf(S) ==
    IF S = {} THEN <<>>
    ELSE LET x == CHOOSE x \in S : TRUE IN <<x>> \o listOf(S \ {x})

\* FileTypeDetector.getExtensionsByCategory
getExtensionsByCategory(category) ==
    listOf({p[1] : p \in {q \in categories : q[2] = category}})

\* the categories asked for: three that have extensions, the fallback
\* category and a misspelt one
FileTypes == {"Code", "Text", "Image", "Unknown", "code"}

\* an optional number argument: has = FALSE when it is left out
SizeArgs == Choices({5}, 0)

\* the SearchOptions findByTypeAndSize builds; a size left out is undefined
optionsByType(fileType, minSize, maxSize) ==
    [NoOptions EXCEPT
        !.has = {"extensions"}
                \cup (IF minSize.has THEN {"minSize"} ELSE {})
                \cup (IF maxSize.has THEN {"maxSize"} ELSE {}),
        !.extensions = getExtensionsByCategory(fileType),
        !.minSize = minSize.v,
        !.maxSize = maxSize.v]

InitByType ==
    /\ fs = Tree(TRUE)
    /\ opts = NoOptions
    /\ stack = <<>>
    /\ files = <<>>
    /\ directories = <<>>
    /\ result = NoResult
    /\ pc = "idle"
    /\ probed = <<>>
    /\ visited = <<>>
    /\ listed = <<>>
    /\ call \in [fileType : FileTypes, minSize : SizeArgs, maxSize : SizeArgs]
    /\ ret = Pending

\* findByTypeAndSize up to its await
FindByTypeAndSize ==
    /\ pc = "idle"
    /\ Search(optionsByType(call.fileType, call.minSize, call.maxSize))

\* findByTypeAndSize after the await: return result.files
ReturnByType ==
    /\ pc = "done"
    /\ ret = Pending
    /\ ret' = [done |-> TRUE, val |-> result.files]
    /\ UNCHANGED <<walkVars, call>>

NextByType ==
    \/ FindByTypeAndSize
    \/ Enter
    \/ Iterate
    \/ Return
    \/ Finish
    \/ ReturnByType

SpecByType == InitByType /\ [][NextByType]_vars

\* C29: every file findByTypeAndSize returns has an extension (letter case
\* aside) that getExtensionsByCategory lists for the type; for a type with
\* no extension nothing is returned.
C29_OnlyListedExtensions ==
    (pc = "done" /\ ret.done) =>
        LET listedExts == Range(getExtensionsByCategory(call.fileType))
        IN  \A f \in Range(ret.val) : toLowerCase(f.extension) \in listedExts

(***************************************************************************)
(* detectMagicNumbers: markers found as whole bytes: C30                   *)
(***************************************************************************)

\* the bytes of the brands mp42 and mp41 after ftyp
Mp42 == Ftyp \o <<109, 112, 52, 50>>
Mp41 == Ftyp \o <<109, 112, 52, 49>>

\* the marker occurs as consecutive whole bytes among the first 16 bytes
WholeBytes(content, marker) == includes(subarray(content, 16), marker)

\* C30: a content is classified as WebP, WAV, AVI or MP4 by its signature
\* only when the marker's bytes occur as consecutive whole bytes among its
\* first 16 bytes.
C30_WholeByteMarkers ==
    (Detected /\ call.readable /\ detectMagicNumbers(call.content).found) =>
        LET mimeType == ret.info.mimeType
            content == call.content
        IN  /\ mimeType = "image/webp" => WholeBytes(content, WEBP)
            /\ mimeType = "audio/wav" => WholeBytes(content, WAVE)
            /\ mimeType = "video/x-msvideo" =>
                   WholeBytes(content, SubSeq(AVI, 1, 3))
            /\ mimeType = "video/mp4" =>
                   WholeBytes(content, Mp42) \/ WholeBytes(content, Mp41)

====
